---------------------------- MODULE Spec2Model ----------------------------
(***************************************************************************)
(* A model of gw: the orchestrator loop of src/src/start.rs, its triggers, *)
(* the git check and the reactors.                                         *)
(*                                                                         *)
(* Several specifications share the module.  Spec runs the orchestrator    *)
(* (triggers, channel, check, reactors) and DeadlineSpec lets its periodic *)
(* triggers end at a deadline; ProcSpec runs one process reactor           *)
(* (children, shared slots, supervisor threads, stop and restart) and      *)
(* ProcFairSpec schedules its threads, with children whose output is       *)
(* text; GitSpec runs the git                                              *)
(* check against a remote whose history grows; TrigSpec runs one trigger   *)
(* on a channel of its own and TrigFairSpec adds the scheduling of its     *)
(* thread; ScriptSpec runs a script reactor over the events of a run;      *)
(* CredSpec runs the credential callback of one fetch.  Each leaves the    *)
(* variables of the others at their initial values.                        *)
(***************************************************************************)
EXTENDS Naturals, Integers, Sequences, FiniteSets, TLC

(***************************************************************************)
(* Bounds of the model.                                                    *)
(***************************************************************************)
MaxTriggers == 2
MaxActions == 2
MaxSends == 2
MaxRetries == 1
MaxStopTimeout == 1
MaxChildren == 2
MaxCommits == 4
MaxSignals == 3
MaxDuration == 2
MaxTimeout == 3
MaxOvershoot == 1
MaxEmits == 2
MaxRequests == 2
MaxEvents == 2
MaxLines == 2
MaxKeys == 1
MaxCalls == 4

VARIABLES
    \* ---- orchestrator (start.rs) ----
    trig,       \* the configured triggers, a sequence of kinds
    nAct,       \* the number of declared reactors (actions)
    opc,        \* where the thread running start() is
    spawnIdx,   \* the next trigger the spawn loop will start
    tst,        \* each trigger thread's position in its listen()
    sigst,      \* the signal thread start() spawns itself
    nSent,      \* messages sent on the channel so far
    queue,      \* the mpsc channel: 0 is None, n > 0 is Some(event n)
    nextId,     \* events are numbered in the order they are enqueued
    cur,        \* the event the loop body is handling
    ai,         \* the index of the reactor the batch is at
    log,        \* the checks and reactor runs of the last two events handled,
                \* in the order they returned
    nChecks,    \* how many times the check has been invoked
    result,     \* what start() returned
    exitBy,     \* why the receive loop ended
    logAtExit,  \* Len(log) when the loop ended
    gotNone,    \* the loop has received the shutdown token
    errAt,      \* 0, or nextId when a listen() first returned Err
    \* ---- process reactor (actions/process.rs) ----
    retries,    \* params.retries
    stopTimeout,\* params.stop_timeout, in seconds: the polls stop() makes
    kids,       \* every child spawned so far, by pid order
    slot,       \* per Process::start: the shared Option<ReaderHandle>, 0 is None
    sup,        \* per Process::start: its supervisor thread
    mpc,        \* where the thread that owns the ProcessAction is
    mop,        \* the operation it is in: "run" (restart) or "stop"
    mainLock,   \* stop() holds the read lock of the current slot
    target,     \* the child stop() found in the slot
    polls,      \* try_wait polls stop() has made
    lastStop,   \* how the last stop() returned, "none" once a start followed
    before,     \* the slot's child when run was called, 0 for None
    beforeAlive,\* whether that child was running then
    runRes,     \* how the last run returned
    \* ---- git check (checks/git.rs, checks/git/repository.rs) ----
    commits,    \* every commit there is, numbered in commit-time order:
                \* its parents and the kind of tag that sits on it
    remoteHead, \* the tip of the tracked branch on the remote
    head,       \* the commit of the local branch HEAD is on, 0 when unborn
    workTree,   \* the commit the working tree was checked out from
    dirty,      \* the working tree has a status entry that is not ignored
    trigger,    \* GitTriggerArgument: "push" or "tag"
    checkRes,   \* what the check returned that has just run, "none" once
                \* the remote or the working tree has changed since
    \* ---- one trigger on a channel of its own (triggers/*.rs) ----
    tkind,      \* which trigger's listen() runs
    tpc,        \* where it is
    terr,       \* the error its listen() returned, "none" for none
    chan,       \* the messages it has sent, in order
    rxAlive,    \* the Receiver of the channel has not been dropped
    trigger_count, \* SignalTrigger.trigger_count
    pending,    \* signals that have arrived and wait in the iterator
    arrived,    \* every signal that has arrived, in order
    signal,     \* the signal the loop of listen_inner holds, 0 for none
    exitCode,   \* the status the process ended with, -1 while it runs
    now,        \* Instant::now(), in units of time since listen() began
    duration,   \* ScheduleTrigger.duration
    timeout,    \* ScheduleTrigger.timeout, NoTimeout for None
    final_timeout, \* the deadline listen() computed, NoTimeout for None
    wake,       \* the instant the sleep of step was asked to end
    requests,   \* the requests the HTTP server has handed out, in order
    responses,  \* what each of them was answered
    \* ---- one script reactor (actions/script.rs) ----
    spc,        \* where the loop of start() is with the event
    penv,       \* the environment gw was started in
    context,    \* the context of the event being handled
    prevContext, \* the context of the event before it
    lastScript, \* the expression the last run of the reactor has built
    senv,       \* the environment of the child of the last run
    slog,       \* what the run has logged of the child's output
    sres,       \* what the last run returned, "none" while it runs
    nEvents,    \* the events received so far
    \* ---- the credential handler of one fetch (checks/git/credentials.rs) ----
    cpc,        \* whether the fetch is going on
    username_attempts_count,
    ssh_attempts_count,
    ssh_key_candidates,  \* how many key files the handler has found
    https_credentials,   \* explicit HTTPS credentials were supplied
    cred_helper_bad,
    answers     \* what the calls of the callback have returned, in order

ovars == <<trig, nAct, opc, spawnIdx, tst, sigst, nSent, queue, nextId,
           cur, ai, log, nChecks, result, exitBy, logAtExit, gotNone, errAt>>

pvars == <<retries, stopTimeout, kids, slot, sup, mpc, mop, mainLock, target,
           polls, lastStop, before, beforeAlive, runRes>>

gvars == <<commits, remoteHead, head, workTree, dirty, trigger, checkRes>>

tvars == <<tkind, tpc, terr, chan, rxAlive, trigger_count, pending, arrived,
           signal, exitCode, now, duration, timeout, final_timeout, wake,
           requests, responses>>

svars == <<spc, penv, context, prevContext, lastScript, senv, slog, sres, nEvents>>

cvars == <<cpc, username_attempts_count, ssh_attempts_count, ssh_key_candidates,
           https_credentials, cred_helper_bad, answers>>

vars == <<ovars, pvars, gvars, tvars, svars, cvars>>

(***************************************************************************)
(* Triggers, as start() sees them: a listen() that sends on the channel    *)
(* and returns Ok or Err.                                                  *)
(*   once               sends Some, then None, returns Ok                  *)
(*   schedule           sends Some on every step; built without a deadline *)
(*                       (main.rs:74) it never returns                     *)
(*   http               fails to bind (Err) or sends Some per request       *)
(***************************************************************************)
Kinds == {"once", "schedule", "http"}

TriggerConfigs == UNION {[1..n -> Kinds] : n \in 0..MaxTriggers}

CheckOutcomes == {"true", "false", "err"}
RunOutcomes == {"ok", "err"}

Entry(op, ev, idx, res) == [op |-> op, ev |-> ev, idx |-> idx, res |-> res]

\* What the log keeps when the next event's check is added: the entries of
\* the event handled last.
LastBatch(l) ==
    IF l = <<>> THEN <<>>
    ELSE LET IsLast(x) == x.ev = l[Len(l)].ev IN SelectSeq(l, IsLast)

(***************************************************************************)
(* The decisions start() takes.                                            *)
(***************************************************************************)

\* start.rs:32  if triggers.is_empty() { return Err(NoTriggers) }
StartRejectsNever(t) == FALSE
StartRejects(t) == Len(t) = 0

\* start.rs:60  rx.recv(): the channel hands out the oldest message
RecvSplitCoalesces(q) == [msg |-> Head(q), rest |-> <<>>]
RecvSplitLifo(q) == [msg |-> q[Len(q)], rest |-> SubSeq(q, 1, Len(q) - 1)]
RecvSplit(q) == [msg |-> Head(q), rest |-> Tail(q)]

\* start.rs:60  while let Ok(Some(context)): None ends the loop
LoopIgnoresNone(msg) == TRUE
LoopContinues(msg) == msg # 0

\* start.rs:61-81  the match on check's result: the pc after it
AfterCheckRunsOnError(outcome, n) ==
    IF outcome # "false" /\ n > 0 THEN "act" ELSE "recv"
AfterCheckFatalError(outcome, n) ==
    IF outcome = "err" THEN "done"
    ELSE IF outcome = "true" /\ n > 0 THEN "act" ELSE "recv"
AfterCheck(outcome, n) ==
    IF outcome = "true" /\ n > 0 THEN "act" ELSE "recv"

\* start.rs:71-73  for action in actions { let _ = action.run(&context); }
\* the index of the next reactor of the batch, 0 when the batch is over
NextActionSkips(i, outcome, n) == IF i + 1 < n THEN i + 2 ELSE 0
NextAction(i, outcome, n) == IF i < n THEN i + 1 ELSE 0

\* start.rs:38-43  a trigger thread whose listen() failed logs and ends:
\* the channel after it
AfterListenErrShutsDown(q) == Append(q, 0)
AfterListenErr(q) == q

\* Every Sender is gone: the clones moved into the trigger threads were
\* dropped when the threads ended, and the signal thread dropped the original
\* (start.rs:46-57: only when the handler could not be installed).
AllSendersDroppedButSignal == \A i \in 1..Len(trig) : tst[i] \in {"ok", "err"}
AllSendersDropped ==
    /\ \A i \in 1..Len(trig) : tst[i] \in {"ok", "err"}
    /\ sigst = "failed"

\* The Receiver lives until start() returns.
ReceiverAlive == opc # "done"

(***************************************************************************)
(* The state after construction: a configuration, nothing started.         *)
(***************************************************************************)
OInit ==
    /\ trig \in TriggerConfigs
    /\ nAct \in 0..MaxActions
    /\ opc = "start"
    /\ spawnIdx = 1
    /\ tst = [i \in 1..Len(trig) |-> "unspawned"]
    /\ sigst = "unspawned"
    /\ nSent = 0
    /\ queue = <<>>
    /\ nextId = 1
    /\ cur = 0
    /\ ai = 0
    /\ log = <<>>
    /\ nChecks = 0
    /\ result = "none"
    /\ exitBy = "none"
    /\ logAtExit = 0
    /\ gotNone = FALSE
    /\ errAt = 0

(***************************************************************************)
(* start(): start.rs:25-87                                                 *)
(***************************************************************************)

\* start.rs:30-34
StartEntry ==
    /\ opc = "start"
    /\ IF StartRejects(trig)
         THEN /\ opc' = "done"
              /\ result' = "NoTriggers"
              /\ exitBy' = "NoTriggers"
         ELSE /\ opc' = "spawn"
              /\ UNCHANGED <<result, exitBy>>
    /\ UNCHANGED <<trig, nAct, spawnIdx, tst, sigst, nSent, queue, nextId,
                   cur, ai, log, nChecks, logAtExit, gotNone, errAt>>

\* start.rs:36-44  one turn of the spawn loop
SpawnTrigger ==
    /\ opc = "spawn"
    /\ spawnIdx <= Len(trig)
    /\ tst' = [tst EXCEPT ![spawnIdx] = "run"]
    /\ spawnIdx' = spawnIdx + 1
    /\ UNCHANGED <<trig, nAct, opc, sigst, nSent, queue, nextId, cur, ai,
                   log, nChecks, result, exitBy, logAtExit, gotNone, errAt>>

\* start.rs:46-59  the signal thread; SignalsInfo::new may fail, and the
\* thread then ends and drops its Sender
SpawnSignal ==
    /\ opc = "spawn"
    /\ spawnIdx > Len(trig)
    /\ sigst' \in {"listening", "failed"}
    /\ opc' = "recv"
    /\ UNCHANGED <<trig, nAct, spawnIdx, tst, nSent, queue, nextId, cur,
                   ai, log, nChecks, result, exitBy, logAtExit, gotNone, errAt>>

\* start.rs:60  a message arrives
Recv ==
    /\ opc = "recv"
    /\ queue # <<>>
    /\ LET r == RecvSplit(queue) IN
        /\ queue' = r.rest
        /\ IF LoopContinues(r.msg)
             THEN /\ cur' = r.msg
                  /\ opc' = "check"
                  /\ UNCHANGED <<result, exitBy, logAtExit>>
             ELSE /\ opc' = "done"
                  /\ result' = "Ok"
                  /\ exitBy' = "None"
                  /\ logAtExit' = Len(log)
                  /\ UNCHANGED cur
        /\ gotNone' = (gotNone \/ r.msg = 0)
    /\ UNCHANGED <<trig, nAct, spawnIdx, tst, sigst, nSent, nextId, ai, log, nChecks,
                   errAt>>

\* start.rs:60  recv() returns Err once every Sender is dropped
RecvDisconnected ==
    /\ opc = "recv"
    /\ queue = <<>>
    /\ AllSendersDropped
    /\ opc' = "done"
    /\ result' = "Ok"
    /\ exitBy' = "Disconnected"
    /\ logAtExit' = Len(log)
    /\ UNCHANGED <<trig, nAct, spawnIdx, tst, sigst, nSent, queue, nextId,
                   cur, ai, log, nChecks, gotNone, errAt>>

\* start.rs:61-81  check.check(&mut context) and the match on its result
Check ==
    /\ opc = "check"
    /\ \E outcome \in CheckOutcomes :
        /\ log' = Append(LastBatch(log), Entry("check", cur, 0, outcome))
        /\ nChecks' = nChecks + 1
        /\ opc' = AfterCheck(outcome, nAct)
        /\ ai' = IF AfterCheck(outcome, nAct) = "act" THEN 1 ELSE 0
    /\ UNCHANGED <<trig, nAct, spawnIdx, tst, sigst, nSent, queue, nextId,
                   cur, result, exitBy, logAtExit, gotNone, errAt>>

\* start.rs:71-73  one reactor of the batch
RunAction ==
    /\ opc = "act"
    /\ \E outcome \in RunOutcomes :
        /\ log' = Append(log, Entry("run", cur, ai, outcome))
        /\ LET nx == NextAction(ai, outcome, nAct) IN
            /\ ai' = nx
            /\ opc' = IF nx = 0 THEN "recv" ELSE "act"
    /\ UNCHANGED <<trig, nAct, spawnIdx, tst, sigst, nSent, queue, nextId,
                   cur, nChecks, result, exitBy, logAtExit, gotNone, errAt>>

(***************************************************************************)
(* The trigger threads.  A send succeeds while the Receiver lives and      *)
(* fails (ReceiverHangup) after start() has returned.  When listen()       *)
(* returns Err the thread logs it and ends (start.rs:38-43).  MaxSends     *)
(* caps the traffic on the channel.                                        *)
(***************************************************************************)

\* triggers/once.rs:16  tx.send(Some(context))?
OnceSendSome(i) ==
    /\ trig[i] = "once"
    /\ tst[i] = "run"
    /\ nSent < MaxSends
    /\ IF ReceiverAlive
         THEN /\ queue' = Append(queue, nextId)
              /\ nextId' = nextId + 1
              /\ nSent' = nSent + 1
              /\ tst' = [tst EXCEPT ![i] = "sent"]
              /\ UNCHANGED errAt
         ELSE /\ queue' = AfterListenErr(queue)
              /\ tst' = [tst EXCEPT ![i] = "err"]
              /\ errAt' = IF errAt = 0 THEN nextId ELSE errAt
              /\ UNCHANGED <<nextId, nSent>>
    /\ UNCHANGED <<trig, nAct, opc, spawnIdx, sigst, cur, ai, log, nChecks,
                   result, exitBy, logAtExit, gotNone>>

\* triggers/once.rs:17-18  tx.send(None)?; Ok(())
OnceSendNone(i) ==
    /\ trig[i] = "once"
    /\ tst[i] = "sent"
    /\ nSent < MaxSends
    /\ IF ReceiverAlive
         THEN /\ queue' = Append(queue, 0)
              /\ nSent' = nSent + 1
              /\ tst' = [tst EXCEPT ![i] = "ok"]
              /\ UNCHANGED errAt
         ELSE /\ queue' = AfterListenErr(queue)
              /\ tst' = [tst EXCEPT ![i] = "err"]
              /\ errAt' = IF errAt = 0 THEN nextId ELSE errAt
              /\ UNCHANGED nSent
    /\ UNCHANGED <<trig, nAct, opc, spawnIdx, sigst, nextId, cur, ai, log,
                   nChecks, result, exitBy, logAtExit, gotNone>>

\* triggers/schedule.rs:60-93, 101-116  one step of the periodic loop: the
\* send and the sleep; without a deadline step returns true and the loop
\* goes on
ScheduleStep(i) ==
    /\ trig[i] = "schedule"
    /\ tst[i] = "run"
    /\ nSent < MaxSends
    /\ IF ReceiverAlive
         THEN /\ queue' = Append(queue, nextId)
              /\ nextId' = nextId + 1
              /\ nSent' = nSent + 1
              /\ UNCHANGED <<tst, errAt>>
         ELSE /\ queue' = AfterListenErr(queue)
              /\ tst' = [tst EXCEPT ![i] = "err"]
              /\ errAt' = IF errAt = 0 THEN nextId ELSE errAt
              /\ UNCHANGED <<nextId, nSent>>
    /\ UNCHANGED <<trig, nAct, opc, spawnIdx, sigst, cur, ai, log, nChecks,
                   result, exitBy, logAtExit, gotNone>>

\* triggers/schedule.rs:76-81, 88-89, 110-115  the last step of a periodic
\* loop that has a deadline: the event is sent, the sleep ends at or after
\* the deadline, step returns false and listen returns Ok; nothing else is
\* sent and the Sender is dropped
ScheduleLastStep(i) ==
    /\ trig[i] = "schedule"
    /\ tst[i] = "run"
    /\ nSent < MaxSends
    /\ ReceiverAlive
    /\ queue' = Append(queue, nextId)
    /\ nextId' = nextId + 1
    /\ nSent' = nSent + 1
    /\ tst' = [tst EXCEPT ![i] = "ok"]
    /\ UNCHANGED <<trig, nAct, opc, spawnIdx, sigst, cur, ai, log, nChecks,
                   result, exitBy, logAtExit, gotNone, errAt>>

\* triggers/http.rs:52-53  Server::http(..): the bind succeeds or the
\* listen ends with CantStartServer
HttpBind(i) ==
    /\ trig[i] = "http"
    /\ tst[i] = "run"
    /\ \E bound \in BOOLEAN :
        IF bound
          THEN /\ tst' = [tst EXCEPT ![i] = "bound"]
               /\ UNCHANGED <<queue, errAt>>
          ELSE /\ tst' = [tst EXCEPT ![i] = "err"]
               /\ errAt' = IF errAt = 0 THEN nextId ELSE errAt
               /\ queue' = AfterListenErr(queue)
    /\ UNCHANGED <<trig, nAct, opc, spawnIdx, sigst, nSent, nextId, cur, ai,
                   log, nChecks, result, exitBy, logAtExit, gotNone>>

\* triggers/http.rs:55-67  one request: the send, then the response, which
\* may fail (FailedResponse) after the event is already on the channel
HttpRequest(i) ==
    /\ trig[i] = "http"
    /\ tst[i] = "bound"
    /\ nSent < MaxSends
    /\ IF ReceiverAlive
         THEN /\ nextId' = nextId + 1
              /\ nSent' = nSent + 1
              /\ \E responded \in BOOLEAN :
                    IF responded
                      THEN /\ queue' = Append(queue, nextId)
                           /\ UNCHANGED <<tst, errAt>>
                      ELSE /\ queue' = AfterListenErr(Append(queue, nextId))
                           /\ tst' = [tst EXCEPT ![i] = "err"]
                           /\ errAt' = IF errAt = 0 THEN nextId + 1 ELSE errAt
         ELSE /\ queue' = AfterListenErr(queue)
              /\ tst' = [tst EXCEPT ![i] = "err"]
              /\ errAt' = IF errAt = 0 THEN nextId ELSE errAt
              /\ UNCHANGED <<nextId, nSent>>
    /\ UNCHANGED <<trig, nAct, opc, spawnIdx, sigst, cur, ai, log, nChecks,
                   result, exitBy, logAtExit, gotNone>>

\* start.rs:48-53  a termination signal while the Receiver lives: the
\* signal thread sends None.  (After start() has returned the send fails
\* and is only logged: nothing changes.)
Signal ==
    /\ sigst = "listening"
    /\ nSent < MaxSends
    /\ ReceiverAlive
    /\ nSent' = nSent + 1
    /\ queue' = Append(queue, 0)
    /\ UNCHANGED <<trig, nAct, opc, spawnIdx, tst, sigst, nextId, cur, ai, log,
                   nChecks, result, exitBy, logAtExit, gotNone, errAt>>

TriggerStep ==
    \E i \in 1..Len(trig) :
        \/ OnceSendSome(i)
        \/ OnceSendNone(i)
        \/ ScheduleStep(i)
        \/ HttpBind(i)
        \/ HttpRequest(i)

ONext ==
    \/ StartEntry /\ UNCHANGED <<pvars, gvars, tvars, svars, cvars>>
    \/ SpawnTrigger /\ UNCHANGED <<pvars, gvars, tvars, svars, cvars>>
    \/ SpawnSignal /\ UNCHANGED <<pvars, gvars, tvars, svars, cvars>>
    \/ Recv /\ UNCHANGED <<pvars, gvars, tvars, svars, cvars>>
    \/ RecvDisconnected /\ UNCHANGED <<pvars, gvars, tvars, svars, cvars>>
    \/ Check /\ UNCHANGED <<pvars, gvars, tvars, svars, cvars>>
    \/ RunAction /\ UNCHANGED <<pvars, gvars, tvars, svars, cvars>>
    \/ TriggerStep /\ UNCHANGED <<pvars, gvars, tvars, svars, cvars>>
    \/ Signal /\ UNCHANGED <<pvars, gvars, tvars, svars, cvars>>

(***************************************************************************)
(* The process reactor: actions/process.rs.                                *)
(*                                                                         *)
(* A child is [alive, how, reaped]: how it ended ("none" while it runs,     *)
(* "exit" for an exit status, "signal" when a signal terminated it) and    *)
(* whether it has been waited for (its pid is gone).  What a child does    *)
(* with the stop signal is its own business: it may die of it, handle it   *)
(* and exit with a status, or ignore it; and it may exit or be killed at   *)
(* any time anyway, so the signal enables nothing that was not enabled.    *)
(***************************************************************************)
NewChild == [alive |-> TRUE, how |-> "none", reaped |-> FALSE]

NKids == Len(kids)
Gen == Len(slot)

\* The child in the slot of the current Process, 0 for None.
CurChild == IF Gen = 0 THEN 0 ELSE slot[Gen]

Running(c) == c # 0 /\ kids[c].alive

\* process.rs:166  let mut tries = max_retries + 1
NewSupSpent == [pc |-> "lock", tries |-> 1, newc |-> 0]
NewSup == [pc |-> "lock", tries |-> retries + 1, newc |-> 0]

\* duct wait/try_wait on a child that has ended: it is reaped
Reaped(k) == [k EXCEPT !.reaped = TRUE]

\* process.rs:274  kill(pid, stop_signal)?: ESRCH once the pid is gone
KillFails(k) == k.reaped

\* process.rs:290-292  child.kill(): SIGKILL and wait; a child that has
\* already ended is only waited for
ForceKillNoop(k) == k
ForceKilled(k) ==
    IF k.alive THEN [k EXCEPT !.alive = FALSE, !.how = "signal", !.reaped = TRUE]
    ELSE [k EXCEPT !.reaped = TRUE]

\* process.rs:178-193  after EOF and try_wait, with t tries left: where the
\* supervisor goes
AfterEofRetriesSignalled(k, t) ==
    IF t - 1 = 0 THEN "take" ELSE "sleep"
AfterEofKeepsSlot(k, t) ==
    IF k.how = "signal" \/ t - 1 = 0 THEN "done" ELSE "sleep"
AfterEof(k, t) ==
    IF k.how = "signal" THEN "done"
    ELSE IF t - 1 = 0 THEN "take" ELSE "sleep"

PIdle ==
    /\ retries = 0
    /\ stopTimeout = 0
    /\ kids = <<>>
    /\ slot = <<>>
    /\ sup = <<>>
    /\ mpc = "new"
    /\ mop = "none"
    /\ mainLock = FALSE
    /\ target = 0
    /\ polls = 0
    /\ lastStop = "none"
    /\ before = 0
    /\ beforeAlive = FALSE
    /\ runRes = "none"

\* ProcessParams after main.rs:115-129: retries and stop_timeout as given
PInit ==
    /\ retries \in 0..MaxRetries
    /\ stopTimeout \in 0..MaxStopTimeout
    /\ kids = <<>>
    /\ slot = <<>>
    /\ sup = <<>>
    /\ mpc = "new"
    /\ mop = "none"
    /\ mainLock = FALSE
    /\ target = 0
    /\ polls = 0
    /\ lastStop = "none"
    /\ before = 0
    /\ beforeAlive = FALSE
    /\ runRes = "none"

\* The orchestrator, not started, with nothing configured.
OIdle ==
    /\ trig = <<>>
    /\ nAct = 0
    /\ opc = "start"
    /\ spawnIdx = 1
    /\ tst = <<>>
    /\ sigst = "unspawned"
    /\ nSent = 0
    /\ queue = <<>>
    /\ nextId = 1
    /\ cur = 0
    /\ ai = 0
    /\ log = <<>>
    /\ nChecks = 0
    /\ result = "none"
    /\ exitBy = "none"
    /\ logAtExit = 0
    /\ gotNone = FALSE
    /\ errAt = 0

(***************************************************************************)
(* Process::start: process.rs:158-243.  The child is spawned, a new slot   *)
(* holds it and a new supervisor thread is started on that slot; the       *)
(* Process the caller held before (and its slot and supervisor) is only    *)
(* dropped by the caller.                                                  *)
(***************************************************************************)
Started ==
    /\ kids' = Append(kids, NewChild)
    /\ slot' = Append(slot, NKids + 1)
    /\ sup' = Append(sup, NewSup)

\* ProcessAction::new: process.rs:333-337
PNew ==
    /\ mpc = "new"
    /\ \E spawned \in BOOLEAN :
        IF spawned
          THEN /\ Started
               /\ mpc' = "idle"
          ELSE /\ mpc' = "failed"
               /\ UNCHANGED <<kids, slot, sup>>
    /\ UNCHANGED <<retries, stopTimeout, mop, mainLock, target, polls,
                   lastStop, before, beforeAlive, runRes>>

\* Action::run -> run_inner is called: process.rs:339-342, 351-353
RunBegin ==
    /\ mpc = "idle"
    /\ NKids < MaxChildren
    /\ mpc' = "stop_lock"
    /\ mop' = "run"
    /\ before' = CurChild
    /\ beforeAlive' = Running(CurChild)
    /\ runRes' = "none"
    /\ lastStop' = "none"
    /\ UNCHANGED <<retries, stopTimeout, kids, slot, sup, mainLock, target,
                   polls>>

\* Process::stop is called on its own (process.rs:377, 437, 482)
StopBegin ==
    /\ mpc = "idle"
    /\ mpc' = "stop_lock"
    /\ mop' = "stop"
    /\ before' = 0
    /\ beforeAlive' = FALSE
    /\ runRes' = "none"
    /\ lastStop' = "none"
    /\ UNCHANGED <<retries, stopTimeout, kids, slot, sup, mainLock, target,
                   polls>>

\* start.rs:60, 84-86  the loop of start() ends on the shutdown token and
\* start returns Ok: the reactors are dropped from the loop as they are
StartReturns ==
    /\ mpc = "idle"
    /\ mpc' = "returned"
    /\ UNCHANGED <<retries, stopTimeout, kids, slot, sup, mop, mainLock, target,
                   polls, lastStop, before, beforeAlive, runRes>>

\* stop() returns r: the read guard is dropped; run_inner goes on to the
\* start after Ok and returns StopFailure after Err (process.rs:340-343)
StopReturns(r) ==
    /\ mainLock' = FALSE
    /\ lastStop' = r
    /\ polls' = 0
    /\ target' = 0
    /\ IF mop = "run"
         THEN IF r = "err"
                THEN mpc' = "idle" /\ runRes' = "err"
                ELSE mpc' = "start" /\ UNCHANGED runRes
         ELSE mpc' = "idle" /\ UNCHANGED runRes

\* process.rs:254-260, 295-297  the read lock; an empty slot is a no-op
StopLock ==
    /\ mpc = "stop_lock"
    /\ IF CurChild = 0
         THEN StopReturns("noop")
         ELSE /\ target' = CurChild
              /\ mainLock' = TRUE
              /\ mpc' = "stop_kill"
              /\ UNCHANGED <<polls, lastStop, runRes>>
    /\ UNCHANGED <<retries, stopTimeout, kids, slot, sup, mop, before,
                   beforeAlive>>

\* process.rs:261-274  kill(pid, stop_signal)?: ESRCH when the child has
\* been waited for, else the signal is sent (to a zombie too)
StopKill ==
    /\ mpc = "stop_kill"
    /\ IF KillFails(kids[target])
         THEN StopReturns("err")
         ELSE /\ mpc' = "stop_poll"
              /\ UNCHANGED <<mainLock, polls, lastStop, runRes, target>>
    /\ UNCHANGED <<retries, stopTimeout, kids, slot, sup, mop, before,
                   beforeAlive>>

\* process.rs:276-277  `start_time.elapsed() < self.stop_timeout` is false:
\* each turn of the loop sleeps a second, p turns have been made
TimedOutAtOnce(p, t) == TRUE
TimedOut(p, t) == p >= t

\* process.rs:276-283  one turn of the polling loop: try_wait, then a
\* second of sleep
StopPoll ==
    /\ mpc = "stop_poll"
    /\ ~TimedOut(polls, stopTimeout)
    /\ IF ~kids[target].alive
         THEN /\ kids' = [kids EXCEPT ![target] = Reaped(@)]
              /\ StopReturns("ok")
         ELSE /\ polls' = polls + 1
              /\ UNCHANGED <<kids, mpc, mainLock, lastStop, runRes, target>>
    /\ UNCHANGED <<retries, stopTimeout, slot, sup, mop, before, beforeAlive>>

\* process.rs:285-294  the timeout has elapsed: child.kill()
StopForceKill ==
    /\ mpc = "stop_poll"
    /\ TimedOut(polls, stopTimeout)
    /\ kids' = [kids EXCEPT ![target] = ForceKilled(@)]
    /\ StopReturns("ok")
    /\ UNCHANGED <<retries, stopTimeout, slot, sup, mop, before, beforeAlive>>

\* process.rs:343-345  self.process = Process::start(&self.params)?
RunStart ==
    /\ mpc = "start"
    /\ mpc' = "idle"
    /\ \E spawned \in BOOLEAN :
        IF spawned
          THEN /\ Started
               /\ runRes' = "ok"
               /\ lastStop' = "none"
          ELSE /\ runRes' = "err"
               /\ UNCHANGED <<kids, slot, sup, lastStop>>
    /\ UNCHANGED <<retries, stopTimeout, mop, mainLock, target, polls, before,
                   beforeAlive>>

(***************************************************************************)
(* The supervisor thread of the g-th start: process.rs:165-234.            *)
(***************************************************************************)

\* process.rs:170, 185-188  the read lock at the top of the loop
SupLock(g) ==
    /\ sup[g].pc = "lock"
    /\ sup' = [sup EXCEPT ![g].pc = IF slot[g] = 0 THEN "take" ELSE "read"]
    /\ UNCHANGED <<retries, stopTimeout, kids, slot, mpc, mop, mainLock,
                   target, polls, lastStop, before, beforeAlive, runRes>>

\* process.rs:171-193  the pipe closes when the child has ended: the reader
\* waits for it, try_wait gives its status, a signalled child ends the
\* thread, anything else costs a try
SupEof(g) ==
    /\ sup[g].pc = "read"
    /\ ~kids[slot[g]].alive
    /\ kids' = [kids EXCEPT ![slot[g]] = Reaped(@)]
    /\ sup' = [sup EXCEPT ![g].pc = AfterEof(kids[slot[g]], sup[g].tries),
                          ![g].tries = IF kids[slot[g]].how = "signal"
                                         THEN @ ELSE @ - 1]
    /\ UNCHANGED <<retries, stopTimeout, slot, mpc, mop, mainLock, target,
                   polls, lastStop, before, beforeAlive, runRes>>

\* process.rs:173, 178-193  a line of the child's output cannot be read (it
\* is not UTF-8): `while let Some(Ok(line))` ends with the child running,
\* try_wait gives no status and a try is spent
SupReadErr(g) ==
    /\ sup[g].pc = "read"
    /\ kids[slot[g]].alive
    /\ sup' = [sup EXCEPT ![g].pc = AfterEof(kids[slot[g]], sup[g].tries),
                          ![g].tries = @ - 1]
    /\ UNCHANGED <<retries, stopTimeout, kids, slot, mpc, mop, mainLock, target,
                   polls, lastStop, before, beforeAlive, runRes>>

\* process.rs:210-213  start_child failed with t tries left: break
AfterStartFailureRetries(t) == IF t > 0 THEN "lock" ELSE "take"
AfterStartFailure(t) == "take"

\* process.rs:200-214  after the 100 ms pause: start_child
SupRespawn(g) ==
    /\ sup[g].pc = "sleep"
    /\ NKids < MaxChildren
    /\ \E spawned \in BOOLEAN :
        IF spawned
          THEN /\ kids' = Append(kids, NewChild)
               /\ sup' = [sup EXCEPT ![g].pc = "write", ![g].newc = NKids + 1]
          ELSE /\ sup' = [sup EXCEPT ![g].pc = AfterStartFailure(sup[g].tries)]
               /\ UNCHANGED kids
    /\ UNCHANGED <<retries, stopTimeout, slot, mpc, mop, mainLock, target,
                   polls, lastStop, before, beforeAlive, runRes>>

\* process.rs:205, 219  replace() and take() hand back the handle the slot
\* held and it is dropped at once: the destructor of duct's ReaderHandle
\* kills a child that has not been read to its end and waits for it
Dropped(c) == IF c = 0 THEN kids ELSE [kids EXCEPT ![c] = ForceKilled(@)]

WriteLockFreeAlways(g) == TRUE
\* The write lock of slot g is free: no reader holds it.  The only other
\* thread that locks a slot is the owner of the current Process, in stop().
WriteLockFree(g) == ~(mainLock /\ g = Gen)

\* process.rs:204-205  unlocked_child.replace(new_child)
SupWrite(g) ==
    /\ sup[g].pc = "write"
    /\ WriteLockFree(g)
    /\ slot' = [slot EXCEPT ![g] = sup[g].newc]
    /\ kids' = Dropped(slot[g])
    /\ sup' = [sup EXCEPT ![g].pc = "lock", ![g].newc = 0]
    /\ UNCHANGED <<retries, stopTimeout, mpc, mop, mainLock, target,
                   polls, lastStop, before, beforeAlive, runRes>>

\* process.rs:217-223  unlocked_child.take()
SupTake(g) ==
    /\ sup[g].pc = "take"
    /\ WriteLockFree(g)
    /\ slot' = [slot EXCEPT ![g] = 0]
    /\ kids' = Dropped(slot[g])
    /\ sup' = [sup EXCEPT ![g].pc = "done"]
    /\ UNCHANGED <<retries, stopTimeout, mpc, mop, mainLock, target,
                   polls, lastStop, before, beforeAlive, runRes>>

(***************************************************************************)
(* The children.                                                           *)
(***************************************************************************)

\* The child ends with an exit status: on its own, or in its handler of the
\* stop signal.
ChildExits(c) ==
    /\ kids[c].alive
    /\ kids' = [kids EXCEPT ![c].alive = FALSE, ![c].how = "exit"]
    /\ UNCHANGED <<retries, stopTimeout, slot, sup, mpc, mop, mainLock, target,
                   polls, lastStop, before, beforeAlive, runRes>>

\* The child is terminated by a signal: the stop signal, or one that
\* somebody else sent.
ChildSignalled(c) ==
    /\ kids[c].alive
    /\ kids' = [kids EXCEPT ![c].alive = FALSE, ![c].how = "signal"]
    /\ UNCHANGED <<retries, stopTimeout, slot, sup, mpc, mop, mainLock, target,
                   polls, lastStop, before, beforeAlive, runRes>>

Sups == 1..Len(sup)
Children == 1..Len(kids)

PNext ==
    \/ PNew /\ UNCHANGED <<ovars, gvars, tvars, svars, cvars>>
    \/ RunBegin /\ UNCHANGED <<ovars, gvars, tvars, svars, cvars>>
    \/ StopBegin /\ UNCHANGED <<ovars, gvars, tvars, svars, cvars>>
    \/ StartReturns /\ UNCHANGED <<ovars, gvars, tvars, svars, cvars>>
    \/ StopLock /\ UNCHANGED <<ovars, gvars, tvars, svars, cvars>>
    \/ StopKill /\ UNCHANGED <<ovars, gvars, tvars, svars, cvars>>
    \/ StopPoll /\ UNCHANGED <<ovars, gvars, tvars, svars, cvars>>
    \/ StopForceKill /\ UNCHANGED <<ovars, gvars, tvars, svars, cvars>>
    \/ RunStart /\ UNCHANGED <<ovars, gvars, tvars, svars, cvars>>
    \/ (\E g \in Sups : SupLock(g)) /\ UNCHANGED <<ovars, gvars, tvars, svars, cvars>>
    \/ (\E g \in Sups : SupEof(g)) /\ UNCHANGED <<ovars, gvars, tvars, svars, cvars>>
    \/ (\E g \in Sups : SupReadErr(g)) /\ UNCHANGED <<ovars, gvars, tvars, svars, cvars>>
    \/ (\E g \in Sups : SupRespawn(g)) /\ UNCHANGED <<ovars, gvars, tvars, svars, cvars>>
    \/ (\E g \in Sups : SupWrite(g)) /\ UNCHANGED <<ovars, gvars, tvars, svars, cvars>>
    \/ (\E g \in Sups : SupTake(g)) /\ UNCHANGED <<ovars, gvars, tvars, svars, cvars>>
    \/ (\E c \in Children : ChildExits(c)) /\ UNCHANGED <<ovars, gvars, tvars, svars, cvars>>
    \/ (\E c \in Children : ChildSignalled(c)) /\ UNCHANGED <<ovars, gvars, tvars, svars, cvars>>

\* The steps of the reactor, its threads and its children when every line
\* the children write can be read (process.rs:173 never meets an Err)
PTextNext ==
    \/ PNew /\ UNCHANGED <<ovars, gvars, tvars, svars, cvars>>
    \/ RunBegin /\ UNCHANGED <<ovars, gvars, tvars, svars, cvars>>
    \/ StopBegin /\ UNCHANGED <<ovars, gvars, tvars, svars, cvars>>
    \/ StartReturns /\ UNCHANGED <<ovars, gvars, tvars, svars, cvars>>
    \/ StopLock /\ UNCHANGED <<ovars, gvars, tvars, svars, cvars>>
    \/ StopKill /\ UNCHANGED <<ovars, gvars, tvars, svars, cvars>>
    \/ StopPoll /\ UNCHANGED <<ovars, gvars, tvars, svars, cvars>>
    \/ StopForceKill /\ UNCHANGED <<ovars, gvars, tvars, svars, cvars>>
    \/ RunStart /\ UNCHANGED <<ovars, gvars, tvars, svars, cvars>>
    \/ (\E g \in Sups : SupLock(g)) /\ UNCHANGED <<ovars, gvars, tvars, svars, cvars>>
    \/ (\E g \in Sups : SupEof(g)) /\ UNCHANGED <<ovars, gvars, tvars, svars, cvars>>
    \/ (\E g \in Sups : SupRespawn(g)) /\ UNCHANGED <<ovars, gvars, tvars, svars, cvars>>
    \/ (\E g \in Sups : SupWrite(g)) /\ UNCHANGED <<ovars, gvars, tvars, svars, cvars>>
    \/ (\E g \in Sups : SupTake(g)) /\ UNCHANGED <<ovars, gvars, tvars, svars, cvars>>
    \/ (\E c \in Children : ChildExits(c)) /\ UNCHANGED <<ovars, gvars, tvars, svars, cvars>>
    \/ (\E c \in Children : ChildSignalled(c)) /\ UNCHANGED <<ovars, gvars, tvars, svars, cvars>>


(***************************************************************************)
(* The git check: checks/git.rs and checks/git/repository.rs.              *)
(*                                                                         *)
(* The history is a DAG of commits.  Commits are numbered in the order of  *)
(* their commit times and a parent is older than its child.  A commit's    *)
(* tag is "none", "match" (a tag whose name matches the pattern of the     *)
(* trigger) or "other" (a tag that does not).  Tags come with the commits  *)
(* they sit on (AutotagOption::Auto).                                      *)
(***************************************************************************)
TagKinds == {"none", "match", "other"}
Triggers == {"push", "tag"}
Commits == 1..Len(commits)

Commit(ps, t) == [par |-> ps, tag |-> t]

RECURSIVE Anc(_)
\* c and everything reachable from it
Anc(c) == {c} \cup UNION {Anc(p) : p \in commits[c].par}

Newest(S) == CHOOSE c \in S : \A d \in S : d <= c

\* repository.rs:165-167  repo.merge_analysis(&[fetch_commit]) against HEAD
MergeAnalysis(h, f) ==
    IF h = 0 THEN "unborn"
    ELSE IF f \in Anc(h) THEN "up_to_date"
    ELSE IF h \in Anc(f) THEN "fast_forward"
    ELSE "normal"

\* repository.rs:169-182  check_if_updatable
CheckIfUpdatableMerges(analysis) ==
    IF analysis \in {"fast_forward", "normal"} THEN "true"
    ELSE IF analysis = "up_to_date" THEN "false"
    ELSE "MergeConflict"
CheckIfUpdatableAlways(analysis) ==
    IF analysis \in {"fast_forward", "up_to_date"} THEN "true"
    ELSE "MergeConflict"
CheckIfUpdatable(analysis) ==
    IF analysis = "fast_forward" THEN "true"
    ELSE IF analysis = "up_to_date" THEN "false"
    ELSE "MergeConflict"

\* repository.rs:201-203, 206-214  tag_names(Some(pattern))
MatchingAny(t) == t # "none"
Matching(t) == t = "match"

RECURSIVE RevWalk(_, _, _, _)
\* repository.rs:196-199, 216-227  the revwalk pushed with the fetched
\* commit yields the commits newest first, parents after their child; the
\* loop breaks at the commit of HEAD and keeps the tagged commits it saw
RevWalk(frontier, seen, stop, acc) ==
    IF frontier = {} THEN acc
    ELSE LET c == Newest(frontier)
         IN IF c = stop THEN acc
            ELSE RevWalk((frontier \ {c}) \cup (commits[c].par \ seen),
                         seen \cup commits[c].par, stop,
                         IF Matching(commits[c].tag) THEN Append(acc, c) ELSE acc)

Reverse(q) == [i \in 1..Len(q) |-> q[Len(q) + 1 - i]]

\* repository.rs:187-231  find_tags
FindTags(f, h) == Reverse(RevWalk({f}, {f}, h, <<>>))

\* git.rs:165  tags.pop(): the last one, 0 for None
PopFirst(q) == IF q = <<>> THEN 0 ELSE q[1]
Pop(q) == IF q = <<>> THEN 0 ELSE q[Len(q)]

\* git.rs:155-177  the commit the check asks pull() for, 0 when it asks for
\* none
PullTarget(tr, f, h) == IF tr = "push" THEN f ELSE Pop(FindTags(f, h))

\* repository.rs:246-252  statuses(include_ignored(false)) is not empty
PullRefusedNever(d) == FALSE
PullRefused(d) == d

GIdle ==
    /\ commits = <<>>
    /\ remoteHead = 0
    /\ head = 0
    /\ workTree = 0
    /\ dirty = FALSE
    /\ trigger = "push"
    /\ checkRes = "none"

\* A clone of a remote that has one commit, or a repository whose branch
\* is still unborn; main.rs:85-92 chooses the trigger argument
GInit ==
    /\ commits = <<Commit({}, "none")>>
    /\ remoteHead = 1
    /\ head \in {0, 1}
    /\ workTree = head
    /\ dirty = FALSE
    /\ trigger \in Triggers
    /\ checkRes = "none"

\* What the check returned is of no interest once something has changed.
Forgotten == checkRes' = "none"

\* Somebody pushes a commit on top of the remote branch.
UpstreamCommit(t) ==
    /\ Len(commits) < MaxCommits
    /\ commits' = Append(commits, Commit({remoteHead}, t))
    /\ remoteHead' = Len(commits) + 1
    /\ Forgotten
    /\ UNCHANGED <<head, workTree, dirty, trigger>>

\* Somebody commits on another branch of the remote, on top of commit p.
UpstreamSide(p, t) ==
    /\ Len(commits) < MaxCommits
    /\ commits' = Append(commits, Commit({p}, t))
    /\ Forgotten
    /\ UNCHANGED <<remoteHead, head, workTree, dirty, trigger>>

\* Somebody merges the other branch's commit s into the remote branch.
UpstreamMerge(s, t) ==
    /\ Len(commits) < MaxCommits
    /\ s \notin Anc(remoteHead)
    /\ remoteHead \notin Anc(s)
    /\ commits' = Append(commits, Commit({remoteHead, s}, t))
    /\ remoteHead' = Len(commits) + 1
    /\ Forgotten
    /\ UNCHANGED <<head, workTree, dirty, trigger>>

\* Somebody force-pushes the remote branch to the commit s of another
\* branch.
UpstreamForce(s) ==
    /\ s \notin Anc(remoteHead)
    /\ remoteHead' = s
    /\ Forgotten
    /\ UNCHANGED <<commits, head, workTree, dirty, trigger>>

\* Somebody edits a file in the working tree, or puts it back.
Touch ==
    /\ head # 0
    /\ dirty' = ~dirty
    /\ Forgotten
    /\ UNCHANGED <<commits, remoteHead, head, workTree, trigger>>

\* repository.rs:259-268  what may fail in pull() once the working tree was
\* found clean: nothing, the move of the branch ref (find_reference,
\* set_target), or what comes after it (set_head, checkout_head)
PullFailures == {"none", "ref", "checkout"}

\* repository.rs:233-273  pull(commit_id), inside the check.  The branch ref
\* is moved first (262-264); when set_head or checkout_head fails after it
\* (265-268) the ref stays moved and the working tree is left as it was, so
\* it differs from HEAD and has status entries
Pull(c, failure) ==
    IF PullRefused(dirty)
      THEN /\ checkRes' = "DirtyWorkingTree"
           /\ UNCHANGED <<head, workTree, dirty>>
    ELSE IF failure = "ref"
      THEN /\ checkRes' = "FailedSettingHead"
           /\ UNCHANGED <<head, workTree, dirty>>
    ELSE IF failure = "checkout"
      THEN /\ head' = c
           /\ dirty' = TRUE
           /\ checkRes' = "FailedSettingHead"
           /\ UNCHANGED workTree
      ELSE /\ head' = c
           /\ workTree' = c
           /\ checkRes' = "true"
           /\ UNCHANGED dirty

\* git.rs:140-182  check_inner
GitCheck(fetched) ==
    /\ UNCHANGED <<commits, remoteHead, trigger>>
    /\ IF head = 0
         THEN checkRes' = "NotOnABranch" /\ UNCHANGED <<head, workTree, dirty>>
       ELSE IF ~fetched
         THEN checkRes' = "FetchFailed" /\ UNCHANGED <<head, workTree, dirty>>
       ELSE LET updatable == CheckIfUpdatable(MergeAnalysis(head, remoteHead))
                commit == PullTarget(trigger, remoteHead, head)
            IN IF updatable # "true"
                 THEN checkRes' = updatable /\ UNCHANGED <<head, workTree, dirty>>
               ELSE IF commit = 0
                 THEN checkRes' = "false" /\ UNCHANGED <<head, workTree, dirty>>
               ELSE \E failure \in PullFailures : Pull(commit, failure)

GNext ==
    \/ (\E t \in TagKinds : UpstreamCommit(t)) /\ UNCHANGED <<ovars, pvars, tvars, svars, cvars>>
    \/ (\E p \in Commits, t \in TagKinds : UpstreamSide(p, t)) /\ UNCHANGED <<ovars, pvars, tvars, svars, cvars>>
    \/ (\E s \in Commits, t \in TagKinds : UpstreamMerge(s, t)) /\ UNCHANGED <<ovars, pvars, tvars, svars, cvars>>
    \/ (\E s \in Commits : UpstreamForce(s)) /\ UNCHANGED <<ovars, pvars, tvars, svars, cvars>>
    \/ Touch /\ UNCHANGED <<ovars, pvars, tvars, svars, cvars>>
    \/ (\E fetched \in BOOLEAN : GitCheck(fetched)) /\ UNCHANGED <<ovars, pvars, tvars, svars, cvars>>

(***************************************************************************)
(* One trigger's listen() on a channel of its own, as the orchestrator and *)
(* the tests of triggers/*.rs call it.  The Receiver only collects; it may *)
(* be dropped at any time, and a send then fails.  Once start() has        *)
(* returned (the Receiver is gone) main may return, which ends the process *)
(* and every trigger thread with it.  Time passes in sleeps only, and a    *)
(* sleep may last longer than asked.                                       *)
(***************************************************************************)
TriggerKinds == {"once", "signal", "schedule", "http"}

\* signal_hook::consts::TERM_SIGNALS: SIGINT, SIGQUIT, SIGTERM
TermSignals == {2, 3, 15}

\* triggers/schedule.rs:20  timeout: None
NoTimeout == -1
Timeouts == {NoTimeout} \cup 0..MaxTimeout

Methods == {"GET", "POST"}
Urls == {"/", "/trigger"}

\* Option<Context> on the channel: None, or Some(context) with the context's
\* TRIGGER_NAME
NoneMsg == [some |-> FALSE, name |-> "-"]
SomeMsg(n) == [some |-> TRUE, name |-> n]

\* triggers/http.rs:58-62  the context of a request
HttpMsgRoot(method, url) ==
    [some |-> TRUE, name |-> "HTTP", method |-> method, url |-> "/"]
HttpMsg(method, url) ==
    [some |-> TRUE, name |-> "HTTP", method |-> method, url |-> url]

\* triggers/http.rs:65  Response::from_string("OK"), whose status is 200;
\* NoResponse stands for a request that got no answer from the handler
OkResponse == [status |-> 200, body |-> "OK"]
NoResponse == [status |-> 0, body |-> "-"]

\* triggers/once.rs:14-17  what listen() sends, in order
OnceMessagesReversed == <<NoneMsg, SomeMsg("ONCE")>>
OnceMessages == <<SomeMsg("ONCE"), NoneMsg>>

\* triggers/signal.rs:28-29  previous == 0: this is the first signal
FirstSignalNever(previous) == FALSE
FirstSignal(previous) == previous = 0

\* triggers/signal.rs:38  process::exit(signal)
ExitStatusFailure(sig) == 1
ExitStatus(sig) == sig

\* mpsc Sender::send: Err(SendError) when the Receiver is gone
SendAlways(alive) == "sent"
Send(alive) == IF alive THEN "sent" ELSE "ReceiverHangup"

\* triggers/schedule.rs:76-77  the next check would come after the deadline
CutToDeadlineNever(next_check, ft) == FALSE
CutToDeadline(next_check, ft) == ft # NoTimeout /\ next_check > ft

\* triggers/schedule.rs:88-92  what step returns after a full sleep
ShouldContinue(t, ft) == IF ft # NoTimeout THEN t < ft ELSE TRUE

\* the process has not exited
Alive == exitCode = -1

TIdle ==
    /\ tkind = "once"
    /\ tpc = "idle"
    /\ terr = "none"
    /\ chan = <<>>
    /\ rxAlive = FALSE
    /\ trigger_count = 0
    /\ pending = <<>>
    /\ arrived = <<>>
    /\ signal = 0
    /\ exitCode = -1
    /\ now = 0
    /\ duration = 0
    /\ timeout = NoTimeout
    /\ final_timeout = NoTimeout
    /\ wake = 0
    /\ requests = <<>>
    /\ responses = <<>>

\* mpsc::channel(), the trigger is built, listen(tx) is about to be called
TInit ==
    /\ tkind \in TriggerKinds
    /\ tpc = "listen"
    /\ terr = "none"
    /\ chan = <<>>
    /\ rxAlive = TRUE
    /\ trigger_count = 0
    /\ pending = <<>>
    /\ arrived = <<>>
    /\ signal = 0
    /\ exitCode = -1
    /\ now = 0
    /\ IF tkind = "schedule"
         THEN duration \in 1..MaxDuration /\ timeout \in Timeouts
         ELSE duration = 0 /\ timeout = NoTimeout
    /\ final_timeout = NoTimeout
    /\ wake = 0
    /\ requests = <<>>
    /\ responses = <<>>

\* The Receiver is dropped.
DropReceiver ==
    /\ rxAlive
    /\ Alive
    /\ rxAlive' = FALSE
    /\ UNCHANGED <<tkind, tpc, terr, chan, trigger_count, pending, arrived,
                   signal, exitCode, now, duration, timeout, final_timeout,
                   wake, requests, responses>>

\* main.rs:143-144  start() has returned Ok and main returns: the process
\* ends with status 0
MainReturns ==
    /\ ~rxAlive
    /\ Alive
    /\ exitCode' = 0
    /\ UNCHANGED <<tkind, tpc, terr, chan, rxAlive, trigger_count, pending,
                   arrived, signal, now, duration, timeout, final_timeout,
                   wake, requests, responses>>

\* triggers/once.rs:16-18  the next tx.send(..)?, and Ok(()) after the last
OnceSend ==
    /\ tkind = "once"
    /\ tpc = "listen"
    /\ Alive
    /\ IF Send(rxAlive) # "sent"
         THEN /\ tpc' = "err"
              /\ terr' = Send(rxAlive)
              /\ UNCHANGED chan
         ELSE /\ chan' = Append(chan, OnceMessages[Len(chan) + 1])
              /\ tpc' = IF Len(chan) + 1 = Len(OnceMessages) THEN "ok" ELSE "listen"
              /\ UNCHANGED terr
    /\ UNCHANGED <<tkind, rxAlive, trigger_count, pending, arrived, signal,
                   exitCode, now, duration, timeout, final_timeout, wake,
                   requests, responses>>

\* triggers/signal.rs:61-68  SignalsInfo::new(TERM_SIGNALS): on failure a
\* warning, and listen returns Ok
SignalSetup ==
    /\ tkind = "signal"
    /\ tpc = "listen"
    /\ Alive
    /\ tpc' \in {"signals", "ok"}
    /\ UNCHANGED <<tkind, terr, chan, rxAlive, trigger_count, pending, arrived,
                   signal, exitCode, now, duration, timeout, final_timeout,
                   wake, requests, responses>>

\* A termination signal is delivered to the process.
SignalArrives(sig) ==
    /\ tkind = "signal"
    /\ tpc \in {"signals", "grace"}
    /\ Alive
    /\ Len(arrived) < MaxSignals
    /\ pending' = Append(pending, sig)
    /\ arrived' = Append(arrived, sig)
    /\ UNCHANGED <<tkind, tpc, terr, chan, rxAlive, trigger_count, signal,
                   exitCode, now, duration, timeout, final_timeout, wake,
                   requests, responses>>

\* triggers/signal.rs:27-36  the iterator yields a signal: the first one
\* sends None, and a failed send is only logged
SignalHandled ==
    /\ tkind = "signal"
    /\ tpc = "signals"
    /\ Alive
    /\ pending # <<>>
    /\ trigger_count' = trigger_count + 1
    /\ pending' = Tail(pending)
    /\ IF FirstSignal(trigger_count)
         THEN /\ chan' = IF Send(rxAlive) = "sent" THEN Append(chan, NoneMsg) ELSE chan
              /\ UNCHANGED <<tpc, signal>>
         ELSE /\ tpc' = "grace"
              /\ signal' = Head(pending)
              /\ UNCHANGED chan
    /\ UNCHANGED <<tkind, terr, rxAlive, arrived, exitCode, now, duration,
                   timeout, final_timeout, wake, requests, responses>>

\* triggers/signal.rs:35-38  after the 100 ms: process::exit(signal)
SignalExit ==
    /\ tkind = "signal"
    /\ tpc = "grace"
    /\ Alive
    /\ tpc' = "exited"
    /\ exitCode' = ExitStatus(signal)
    /\ UNCHANGED <<tkind, terr, chan, rxAlive, trigger_count, pending, arrived,
                   signal, now, duration, timeout, final_timeout, wake,
                   requests, responses>>

\* triggers/schedule.rs:102  the deadline, if the trigger has a timeout
ScheduleListen ==
    /\ tkind = "schedule"
    /\ tpc = "listen"
    /\ Alive
    /\ final_timeout' = IF timeout = NoTimeout THEN NoTimeout ELSE now + timeout
    /\ tpc' = "step"
    /\ UNCHANGED <<tkind, terr, chan, rxAlive, trigger_count, pending, arrived,
                   signal, exitCode, now, duration, timeout, wake, requests,
                   responses>>

\* triggers/schedule.rs:65-85  step up to its sleep: the send, and how long
\* the sleep is to be.  A trigger without a deadline never ends; the model
\* follows it for MaxEmits events.
ScheduleSend ==
    /\ tkind = "schedule"
    /\ tpc = "step"
    /\ Alive
    /\ final_timeout = NoTimeout => Len(chan) < MaxEmits
    /\ IF Send(rxAlive) # "sent"
         THEN /\ tpc' = "err"
              /\ terr' = Send(rxAlive)
              /\ UNCHANGED <<chan, wake>>
         ELSE /\ chan' = Append(chan, SomeMsg("SCHEDULE"))
              /\ IF CutToDeadline(now + duration, final_timeout)
                   THEN wake' = final_timeout /\ tpc' = "sleep_final"
                   ELSE wake' = now + duration /\ tpc' = "sleep"
              /\ UNCHANGED terr
    /\ UNCHANGED <<tkind, rxAlive, trigger_count, pending, arrived, signal,
                   exitCode, now, duration, timeout, final_timeout, requests,
                   responses>>

\* triggers/schedule.rs:79-80, 85-92 and 109-113  the sleep is over, at the
\* asked instant or later; step returns and listen loops or returns Ok
ScheduleWake ==
    /\ tkind = "schedule"
    /\ tpc \in {"sleep", "sleep_final"}
    /\ Alive
    /\ \E over \in 0..MaxOvershoot : now' = wake + over
    /\ tpc' = IF tpc = "sleep" /\ ShouldContinue(now', final_timeout)
                THEN "step" ELSE "ok"
    /\ UNCHANGED <<tkind, terr, chan, rxAlive, trigger_count, pending, arrived,
                   signal, exitCode, duration, timeout, final_timeout, wake,
                   requests, responses>>

\* triggers/http.rs:52-54  Server::http binds the address or fails
HttpListen ==
    /\ tkind = "http"
    /\ tpc = "listen"
    /\ Alive
    /\ \/ tpc' = "serving" /\ UNCHANGED terr
       \/ tpc' = "err" /\ terr' = "Misconfigured"
    /\ UNCHANGED <<tkind, chan, rxAlive, trigger_count, pending, arrived,
                   signal, exitCode, now, duration, timeout, final_timeout,
                   wake, requests, responses>>

\* triggers/http.rs:55-66  one request: the send, then the response, which
\* may fail to be written
HttpServe(method, url) ==
    /\ tkind = "http"
    /\ tpc = "serving"
    /\ Alive
    /\ Len(requests) < MaxRequests
    /\ requests' = Append(requests, [method |-> method, url |-> url])
    /\ IF Send(rxAlive) # "sent"
         THEN /\ tpc' = "err"
              /\ terr' = Send(rxAlive)
              /\ responses' = Append(responses, NoResponse)
              /\ UNCHANGED chan
         ELSE /\ chan' = Append(chan, HttpMsg(method, url))
              /\ \/ /\ responses' = Append(responses, OkResponse)
                    /\ UNCHANGED <<tpc, terr>>
                 \/ /\ responses' = Append(responses, NoResponse)
                    /\ tpc' = "err"
                    /\ terr' = "FailedTrigger"
    /\ UNCHANGED <<tkind, rxAlive, trigger_count, pending, arrived, signal,
                   exitCode, now, duration, timeout, final_timeout, wake>>

TNext ==
    \/ DropReceiver /\ UNCHANGED <<ovars, pvars, gvars, svars, cvars>>
    \/ MainReturns /\ UNCHANGED <<ovars, pvars, gvars, svars, cvars>>
    \/ OnceSend /\ UNCHANGED <<ovars, pvars, gvars, svars, cvars>>
    \/ SignalSetup /\ UNCHANGED <<ovars, pvars, gvars, svars, cvars>>
    \/ (\E sig \in TermSignals : SignalArrives(sig)) /\ UNCHANGED <<ovars, pvars, gvars, svars, cvars>>
    \/ SignalHandled /\ UNCHANGED <<ovars, pvars, gvars, svars, cvars>>
    \/ SignalExit /\ UNCHANGED <<ovars, pvars, gvars, svars, cvars>>
    \/ ScheduleListen /\ UNCHANGED <<ovars, pvars, gvars, svars, cvars>>
    \/ ScheduleSend /\ UNCHANGED <<ovars, pvars, gvars, svars, cvars>>
    \/ ScheduleWake /\ UNCHANGED <<ovars, pvars, gvars, svars, cvars>>
    \/ HttpListen /\ UNCHANGED <<ovars, pvars, gvars, svars, cvars>>
    \/ (\E method \in Methods, url \in Urls : HttpServe(method, url)) /\ UNCHANGED <<ovars, pvars, gvars, svars, cvars>>

(***************************************************************************)
(* A script reactor over the events of one run: the trigger makes the      *)
(* context of an event, the check adds to it, and ScriptAction::run gets   *)
(* it by reference (start.rs:60-73, actions/script.rs).  An environment is *)
(* a function from variable names to values; a name is the pair of its     *)
(* prefix and the rest, so that GW_<key> is <<"GW_", key>>.                *)
(***************************************************************************)
EventKinds == {"SCHEDULE", "HTTP"}
Shas == {"sha1", "sha2"}
LineKinds == {"utf8", "invalid"}
ExitKinds == {"success", "nonzero", "unknown"}

\* ScriptAction.directory
Directory == "/repo"

Name(prefix, key) == <<prefix, key>>

\* b laid over a: the variables of b, and those of a that b does not set
Override(a, b) ==
    [n \in DOMAIN a \cup DOMAIN b |-> IF n \in DOMAIN b THEN b[n] ELSE a[n]]

\* the environments gw itself may have been started in (script.rs:239)
NoEnv == [n \in {} |-> "-"]
ParentEnvs == {NoEnv, [n \in {Name("GW_", "TEST")} |-> "GW_TEST"]}

\* triggers/schedule.rs:67-73 and triggers/http.rs:58-62  the context a
\* trigger sends
ScheduleContext == [k \in {"TRIGGER_NAME"} |-> "SCHEDULE"]
HttpContext(method) ==
    [k \in {"TRIGGER_NAME", "HTTP_METHOD"} |->
        IF k = "TRIGGER_NAME" THEN "HTTP" ELSE method]

\* checks/git.rs:145  what every check inserts, and 160 what an update adds
Checked(ctx) == Override(ctx, [k \in {"CHECK_NAME"} |-> "GIT"])
Updated(ctx, sha) == Override(ctx, [k \in {"GIT_COMMIT_SHA"} |-> sha])

\* actions/script.rs:63-66  the variables ScriptAction::new sets on the
\* expression
NewScript ==
    [n \in {Name("", "CI"), Name("GW_", "ACTION_NAME"), Name("GW_", "DIRECTORY")} |->
        IF n = Name("", "CI") THEN "true"
        ELSE IF n = Name("GW_", "ACTION_NAME") THEN "SCRIPT"
        ELSE Directory]

\* actions/script.rs:82  self.script.clone(): a run starts from the
\* expression of new(), whatever the run before has made of its own copy
CloneOfLast(script, last) == last
Clone(script, last) == script

\* actions/script.rs:85-87  script.env(format!("GW_{key}"), value) for each
\* entry of the context
WithContext(script, ctx) ==
    Override(script, [n \in {Name("GW_", k) : k \in DOMAIN ctx} |-> ctx[n[2]]])

\* actions/script.rs:104-109  a line that cannot be read is logged as such
Logged(line) == IF line = "utf8" THEN "line" ELSE "<output cannot be parsed>"

\* actions/script.rs:111-122  the result of run_inner from child.try_wait()
RunResult(exit, lines) ==
    IF exit = "success" THEN "Ok"
    ELSE IF exit = "nonzero" THEN "NonZeroExitcode"
    ELSE "OutputFailure"

SIdle ==
    /\ spc = "idle"
    /\ penv = NoEnv
    /\ context = NoEnv
    /\ prevContext = NoEnv
    /\ lastScript = NoEnv
    /\ senv = NoEnv
    /\ slog = <<>>
    /\ sres = "none"
    /\ nEvents = 0

SInit ==
    /\ spc = "recv"
    /\ penv \in ParentEnvs
    /\ context = NoEnv
    /\ prevContext = NoEnv
    /\ lastScript = NewScript
    /\ senv = NoEnv
    /\ slog = <<>>
    /\ sres = "none"
    /\ nEvents = 0

\* start.rs:60  the loop receives the context a trigger has sent
ScriptEvent(ctx) ==
    /\ spc = "recv"
    /\ nEvents < MaxEvents
    /\ nEvents' = nEvents + 1
    /\ prevContext' = context
    /\ context' = ctx
    /\ spc' = "check"
    /\ UNCHANGED <<penv, lastScript, senv, slog, sres>>

\* start.rs:61-81, checks/git.rs:140-182  the check adds its keys; the
\* reactors are run only when it returns true
ScriptCheck(updated, sha) ==
    /\ spc = "check"
    /\ context' = IF updated THEN Updated(Checked(context), sha) ELSE Checked(context)
    /\ spc' = IF updated THEN "run" ELSE "recv"
    /\ UNCHANGED <<penv, prevContext, lastScript, senv, slog, sres, nEvents>>

\* actions/script.rs:80-100  the environment is laid out and the child is
\* spawned, or cannot be
ScriptStart(spawned) ==
    /\ spc = "run"
    /\ LET script == WithContext(Clone(NewScript, lastScript), context)
       IN  /\ lastScript' = script
           /\ IF spawned
                THEN /\ senv' = Override(penv, script)
                     /\ spc' = "read"
                     /\ sres' = "none"
                ELSE /\ senv' = NoEnv
                     /\ spc' = "recv"
                     /\ sres' = "ScriptFailure"
    /\ slog' = <<>>
    /\ UNCHANGED <<penv, context, prevContext, nEvents>>

\* actions/script.rs:102-109  one line of the child's output
ScriptLine(line) ==
    /\ spc = "read"
    /\ Len(slog) < MaxLines
    /\ slog' = Append(slog, Logged(line))
    /\ UNCHANGED <<spc, penv, context, prevContext, lastScript, senv, sres, nEvents>>

\* actions/script.rs:111-122  the output has ended
ScriptEnd(exit) ==
    /\ spc = "read"
    /\ sres' = RunResult(exit, slog)
    /\ spc' = "recv"
    /\ UNCHANGED <<penv, context, prevContext, lastScript, senv, slog, nEvents>>

SNext ==
    \/ ScriptEvent(ScheduleContext) /\ UNCHANGED <<ovars, pvars, gvars, tvars, cvars>>
    \/ (\E method \in Methods : ScriptEvent(HttpContext(method))) /\ UNCHANGED <<ovars, pvars, gvars, tvars, cvars>>
    \/ (\E updated \in BOOLEAN, sha \in Shas : ScriptCheck(updated, sha)) /\ UNCHANGED <<ovars, pvars, gvars, tvars, cvars>>
    \/ (\E spawned \in BOOLEAN : ScriptStart(spawned)) /\ UNCHANGED <<ovars, pvars, gvars, tvars, cvars>>
    \/ (\E line \in LineKinds : ScriptLine(line)) /\ UNCHANGED <<ovars, pvars, gvars, tvars, cvars>>
    \/ (\E exit \in ExitKinds : ScriptEnd(exit)) /\ UNCHANGED <<ovars, pvars, gvars, tvars, cvars>>

(***************************************************************************)
(* The credential callback of one fetch (checks/git/credentials.rs):       *)
(* libgit2 calls try_next_credential again for as long as the remote turns *)
(* down what it was given, each time with the credential types it allows.  *)
(***************************************************************************)
CredentialTypes == {"USERNAME", "SSH_KEY", "USER_PASS_PLAINTEXT", "DEFAULT"}
Auths == {"none", "ssh", "https"}

\* what a call returns: a credential to try (the n-th of its class), or an
\* error
Cred(class, n) == [ok |-> TRUE, what |-> class, n |-> n]
Err(e) == [ok |-> FALSE, what |-> e, n |-> 0]

\* credentials.rs:129-137  the username candidates are <<"git">>
NextUsername(idx) ==
    IF idx < 1 THEN Cred("username git", 1) ELSE Err("no more username to try")

\* credentials.rs:150-177  the agent first, then each key file in turn
NextSshKey(attempts, keys) ==
    IF attempts = 1 THEN Cred("ssh-agent", 1)
    ELSE IF attempts - 2 < keys THEN Cred("ssh-key", attempts - 1)
    ELSE Err("no ssh-key found that can authenticate to your repository")

CIdle ==
    /\ cpc = "idle"
    /\ username_attempts_count = 0
    /\ ssh_attempts_count = 0
    /\ ssh_key_candidates = 0
    /\ https_credentials = FALSE
    /\ cred_helper_bad = "None"
    /\ answers = <<>>

\* credentials.rs:31-74  CredentialHandler::new: explicit HTTPS credentials
\* leave no key candidates; an explicit key is a candidate if the file
\* exists, as is each of the default key files that exists
CInit ==
    /\ cpc = "fetch"
    /\ username_attempts_count = 0
    /\ ssh_attempts_count = 0
    /\ \E auth \in Auths :
          /\ https_credentials = (auth = "https")
          /\ ssh_key_candidates \in
                IF auth = "https" THEN {0}
                ELSE IF auth = "ssh" THEN {0, 1}
                ELSE 0..MaxKeys
    /\ cred_helper_bad = "None"
    /\ answers = <<>>

\* credentials.rs:104-109  libgit2 calls the callback during the fetch
Called ==
    /\ cpc = "fetch"
    /\ Len(answers) < MaxCalls
    /\ UNCHANGED <<cpc, ssh_key_candidates, https_credentials>>

\* credentials.rs:129-137
AskUsername(allowed) ==
    /\ Called
    /\ "USERNAME" \in allowed
    /\ username_attempts_count' = username_attempts_count + 1
    /\ answers' = Append(answers, NextUsername(username_attempts_count))
    /\ UNCHANGED <<ssh_attempts_count, cred_helper_bad>>

\* credentials.rs:146-178
AskSshKey(allowed) ==
    /\ Called
    /\ "USERNAME" \notin allowed
    /\ "SSH_KEY" \in allowed
    /\ ssh_attempts_count' = ssh_attempts_count + 1
    /\ answers' = Append(answers, NextSshKey(ssh_attempts_count', ssh_key_candidates))
    /\ UNCHANGED <<username_attempts_count, cred_helper_bad>>

\* credentials.rs:186-198  the explicit credentials, or else the credential
\* helper of git, which may find something or fail
AskUserPass(allowed) ==
    /\ Called
    /\ "USERNAME" \notin allowed
    /\ "SSH_KEY" \notin allowed
    /\ "USER_PASS_PLAINTEXT" \in allowed
    /\ cred_helper_bad = "None"
    /\ IF https_credentials
         THEN /\ answers' = Append(answers, Cred("explicit username and password", 1))
              /\ UNCHANGED cred_helper_bad
         ELSE \E r \in {Cred("credential helper", 1), Err("credential helper failed")} :
                 /\ cred_helper_bad' = IF r.ok THEN "Some(false)" ELSE "Some(true)"
                 /\ answers' = Append(answers, r)
    /\ UNCHANGED <<username_attempts_count, ssh_attempts_count>>

\* credentials.rs:202-208
AskOther(allowed) ==
    /\ Called
    /\ "USERNAME" \notin allowed
    /\ "SSH_KEY" \notin allowed
    /\ ~("USER_PASS_PLAINTEXT" \in allowed /\ cred_helper_bad = "None")
    /\ answers' = Append(answers,
                     IF "DEFAULT" \in allowed THEN Cred("default", 1)
                     ELSE Err("no valid authentication available"))
    /\ UNCHANGED <<username_attempts_count, ssh_attempts_count, cred_helper_bad>>

\* the sets of credential types libgit2 may allow in a call
Allowed == SUBSET CredentialTypes

\* checks/git/repository.rs:140-142  the fetch ends, with or without success
FetchEnds ==
    /\ cpc = "fetch"
    /\ cpc' = "done"
    /\ UNCHANGED <<username_attempts_count, ssh_attempts_count, ssh_key_candidates,
                   https_credentials, cred_helper_bad, answers>>

CNext ==
    \/ (\E allowed \in Allowed : AskUsername(allowed)) /\ UNCHANGED <<ovars, pvars, gvars, tvars, svars>>
    \/ (\E allowed \in Allowed : AskSshKey(allowed)) /\ UNCHANGED <<ovars, pvars, gvars, tvars, svars>>
    \/ (\E allowed \in Allowed : AskUserPass(allowed)) /\ UNCHANGED <<ovars, pvars, gvars, tvars, svars>>
    \/ (\E allowed \in Allowed : AskOther(allowed)) /\ UNCHANGED <<ovars, pvars, gvars, tvars, svars>>
    \/ FetchEnds /\ UNCHANGED <<ovars, pvars, gvars, tvars, svars>>

(***************************************************************************)
(* The specifications.                                                     *)
(***************************************************************************)
Init == OInit /\ PIdle /\ GIdle /\ TIdle /\ SIdle /\ CIdle
Next == ONext
Spec == Init /\ [][Next]_vars

\* The orchestrator with periodic triggers that may have a deadline
DeadlineNext ==
    \/ ONext
    \/ (\E i \in 1..Len(trig) : ScheduleLastStep(i))
          /\ UNCHANGED <<pvars, gvars, tvars, svars, cvars>>
DeadlineSpec == Init /\ [][DeadlineNext]_vars

ProcInit == PInit /\ OIdle /\ GIdle /\ TIdle /\ SIdle /\ CIdle
ProcNext == PNext
ProcSpec == ProcInit /\ [][ProcNext]_vars

GitInit == GInit /\ OIdle /\ PIdle /\ TIdle /\ SIdle /\ CIdle

TrigInit == TInit /\ OIdle /\ PIdle /\ GIdle /\ SIdle /\ CIdle
TrigNext == TNext
TrigSpec == TrigInit /\ [][TrigNext]_vars

ScriptInit == SInit /\ OIdle /\ PIdle /\ GIdle /\ TIdle /\ CIdle
ScriptNext == SNext
ScriptSpec == ScriptInit /\ [][ScriptNext]_vars

CredInit == CInit /\ OIdle /\ PIdle /\ GIdle /\ TIdle /\ SIdle
CredNext == CNext
CredSpec == CredInit /\ [][CredNext]_vars

\* The trigger's thread is scheduled: its next step is taken in the end.
TrigStep ==
    (OnceSend \/ SignalHandled \/ SignalExit \/ ScheduleListen \/ ScheduleSend
        \/ ScheduleWake) /\ UNCHANGED <<ovars, pvars, gvars, svars, cvars>>

TrigFairSpec == TrigInit /\ [][TrigNext]_vars /\ WF_vars(TrigStep)
GitNext == GNext
GitSpec == GitInit /\ [][GitNext]_vars

\* The threads are scheduled and the children write text.  A supervisor thread that is ready to take a
\* step takes it: its steps are finitely many, and a writer that waits for
\* the RwLock gets it once the readers are gone (std's RwLock does not let
\* new readers starve a waiting writer), hence the strong fairness.  stop()
\* runs to its return once it has been called.
SupStep ==
    (\E g \in Sups : SupLock(g) \/ SupEof(g) \/ SupRespawn(g) \/ SupWrite(g)
                        \/ SupTake(g)) /\ UNCHANGED <<ovars, gvars, tvars, svars, cvars>>
MainStopStep ==
    (StopLock \/ StopKill \/ StopPoll \/ StopForceKill) /\ UNCHANGED <<ovars, gvars, tvars, svars, cvars>>
ProcFairSpec ==
    ProcInit /\ [][PTextNext]_vars /\ SF_vars(SupStep) /\ WF_vars(MainStopStep)

(***************************************************************************)
(* Properties of the orchestrator, checked under Spec.                     *)
(***************************************************************************)
Pos == 1..Len(log)

RunsOf(e) == {q \in Pos : log[q].op = "run" /\ log[q].ev = e}

\* The batch of event e is over: the loop body is not running its reactors.
BatchOver(e) == ~(cur = e /\ opc = "act")

\* C1: for an event whose check returned true the reactors are run in the
\* declared order, 1, 2, ..., right after the check and with nothing of
\* another event in between; once the batch is over and no reactor failed,
\* every declared reactor has run exactly once.
C1_ReactorsInDeclaredOrder ==
    \A p \in Pos :
        (log[p].op = "check" /\ log[p].res = "true") =>
            LET e == log[p].ev
                m == Cardinality(RunsOf(e))
            IN /\ RunsOf(e) = (p + 1)..(p + m)
               /\ \A q \in RunsOf(e) : log[q].idx = q - p
               /\ (BatchOver(e) /\ \A q \in RunsOf(e) : log[q].res = "ok")
                      => m = nAct

\* A batch of two reactors ran in full without a failure and the check of
\* the next event came after it.
C1_Witness ==
    /\ nAct = 2
    /\ \E p \in Pos :
        /\ log[p].op = "check" /\ log[p].res = "true"
        /\ p + 3 \in Pos
        /\ log[p + 1].op = "run" /\ log[p + 1].res = "ok"
        /\ log[p + 2].op = "run" /\ log[p + 2].res = "ok"
        /\ log[p + 3].op = "check"

\* C2: once a reactor has returned an error for an event, no reactor declared
\* after it is run for that event.
C2_ErrorBreaksTheBatch ==
    \A p, q \in Pos :
        (/\ p < q
         /\ log[p].op = "run" /\ log[p].res = "err"
         /\ log[q].ev = log[p].ev)
            => log[q].op # "run"

\* C3: a reactor is run for an event only after the check for that event
\* returned true; after false or an error no reactor runs for it.
C3_NoReactorUnlessCheckTrue ==
    \A q \in Pos :
        log[q].op = "run" =>
            \E p \in 1..(q - 1) :
                /\ log[p].op = "check"
                /\ log[p].ev = log[q].ev
                /\ log[p].res = "true"

\* With reactors declared, one event's check returned false, the next
\* one's an error, and the loop is receiving again.
C3_Witness ==
    /\ nAct > 0
    /\ Len(log) = 2
    /\ log[1].op = "check" /\ log[1].res = "false"
    /\ log[2].op = "check" /\ log[2].res = "err"
    /\ opc = "recv"

\* C4: once the loop has received None, start has returned Ok and nothing
\* is checked or run any more, whatever is still queued behind the None.
C4_NoneEndsTheLoop ==
    gotNone =>
        /\ opc = "done"
        /\ result = "Ok"
        /\ exitBy = "None"
        /\ Len(log) = logAtExit

\* None was received while a Some event was queued behind it.
C4_Witness ==
    /\ gotNone
    /\ \E k \in 1..Len(queue) : queue[k] > 0

\* C5: after a check error or a reactor error the orchestrator is still in
\* its loop (receiving, checking or running the rest of the batch) unless it
\* has meanwhile been shut down by None or by the channel closing.
C5_ErrorsAreNotFatal ==
    (/\ Len(log) > 0 /\ log[Len(log)].res = "err"
     /\ ~gotNone
     /\ exitBy # "Disconnected")
        => /\ opc \in {"recv", "check", "act"}
           /\ result = "none"

\* A reactor error was followed by the check of the next event, that check
\* returned an error, and the loop is receiving again.
C5_Witness ==
    \E p \in Pos :
        /\ log[p].op = "run" /\ log[p].res = "err"
        /\ log[Len(log)].op = "check" /\ log[Len(log)].res = "err"
        /\ log[Len(log)].ev > log[p].ev
        /\ opc = "recv"

\* C6: with no trigger configured start returns NoTriggers, no thread is
\* ever spawned and neither the check nor a reactor is invoked.
C6_NoTriggersIsRejected ==
    (Len(trig) = 0) =>
        /\ opc \in {"start", "done"}
        /\ (opc = "done" => result = "NoTriggers")
        /\ sigst = "unspawned"
        /\ log = <<>>
        /\ queue = <<>>

\* start has returned for an empty trigger list.
C6_Witness == Len(trig) = 0 /\ opc = "done" /\ result = "NoTriggers"

\* C7: events are handled one at a time in the order they were enqueued
\* (their numbering): the k-th check is the check of event k, and everything
\* logged for an event comes before anything logged for a later one.
C7_EventsSerialisedInOrder ==
    /\ \A p \in Pos :
        log[p].op = "check" =>
            log[p].ev = nChecks - Cardinality({q \in (p + 1)..Len(log) :
                                                  log[q].op = "check"})
    /\ \A p, q \in Pos : p < q => log[p].ev <= log[q].ev

\* Two triggers running concurrently each sent an event, and both events
\* were checked, the first with a reactor batch.
C7_Witness ==
    /\ Len(trig) = 2
    /\ trig[1] = "once" /\ trig[2] = "once"
    /\ \E p, q \in Pos :
        /\ p + 1 < q
        /\ log[p].op = "check" /\ log[p].ev = 1
        /\ log[q].op = "check" /\ log[q].ev = 2

\* C8: the step in which a trigger's listen returns an error changes that
\* trigger's thread only: the orchestrator's position and result, the events
\* already on the channel and the other triggers are as before.
C8_ListenErrorIsLocal ==
    [][\A i \in 1..Len(trig) :
          (tst[i] # "err" /\ tst'[i] = "err") =>
              /\ opc' = opc /\ result' = result /\ cur' = cur /\ log' = log
              /\ \/ queue' = queue
                 \/ queue' = Append(queue, nextId)
              /\ \A j \in 1..Len(trig) : j # i => tst'[j] = tst[j]]_vars

\* A trigger failed while the orchestrator ran, and an event another
\* trigger sent after the failure was checked.
C8_Witness ==
    /\ errAt > 0
    /\ \E i \in 1..Len(trig) : tst[i] = "err"
    /\ \E p \in Pos : log[p].op = "check" /\ log[p].ev >= errAt


(***************************************************************************)
(* The process reactor's stop and restart.                                 *)
(***************************************************************************)

\* stop() has returned Ok and the reactor has not started a child since
StoppedOk == lastStop \in {"ok", "noop"} /\ mpc \in {"idle", "start"}

\* C9: once stop() has returned (Ok), and until the reactor starts a child
\* again, the child in the shared slot, if there is one, is not running.
C9_StoppedChildIsNotRunning == StoppedOk => ~Running(CurChild)

\* run_inner returns Ok: the step that ends the start after the stop
RunReturnsOk == mpc = "start" /\ mpc' = "idle" /\ runRes' = "ok"

\* C10: when run returns Ok, the slot of the reactor holds a child, it is
\* not the child the slot held when run was called, and that earlier child
\* is not running any more.
C10_RunReplacesTheChild ==
    [][RunReturnsOk =>
         /\ CurChild' # 0
         /\ CurChild' # before
         /\ Running(CurChild)'
         /\ ~Running(before)']_vars

\* run was called on a reactor whose child was running, has returned Ok, and
\* the slot holds a new, running child while the earlier one has ended
C10_Witness ==
    /\ mop = "run"
    /\ mpc = "idle"
    /\ runRes = "ok"
    /\ beforeAlive
    /\ CurChild # before
    /\ Running(CurChild)
    /\ ~kids[before].alive


(***************************************************************************)
(* The supervisor's retry budget.                                          *)
(***************************************************************************)

\* The child in slot g has ended with an exit status, the supervisor of g
\* has not looked at it yet and has one try left: no retries remain.
LastTryExited(g) ==
    /\ g \in Sups
    /\ sup[g].pc \in {"lock", "read"}
    /\ sup[g].tries = 1
    /\ slot[g] # 0
    /\ kids[slot[g]].how = "exit"

\* The supervisor of g is on its way to the take() of process.rs:217-223
GivingUp(g) ==
    LastTryExited(g) \/ (g \in Sups /\ sup[g].pc = "take" /\ slot[g] # 0)

\* stop() finds the slot empty and returns
StopOnEmptySlot == mpc = "stop_lock" /\ CurChild = 0 /\ mpc' # "stop_lock"

C12_RestartResetsTheRetries ==
    [][RunReturnsOk =>
         /\ Len(sup') = Len(sup) + 1
         /\ sup'[Len(sup')] = [pc |-> "lock", tries |-> retries + 1, newc |-> 0]
         /\ Len(kids') = Len(kids) + 1
         /\ CurChild' = Len(kids')
         /\ kids'[CurChild'].alive
         /\ retries' = retries /\ stopTimeout' = stopTimeout]_vars

\* The previous child had used up its retries and the supervisor had emptied
\* the slot; run was called then, found no child, and started a child whose
\* supervisor has all its tries again
C12_Witness ==
    /\ mop = "run"
    /\ mpc = "idle"
    /\ runRes = "ok"
    /\ before = 0
    /\ Len(sup) = 2
    /\ sup[1].pc = "done"
    /\ sup[1].tries = 0
    /\ slot[1] = 0
    /\ sup[2].tries = retries + 1
    /\ Running(CurChild)


(***************************************************************************)
(* The git check.                                                          *)
(***************************************************************************)

IsAncestor(a, b) == a \in Anc(b)

\* A check has run in this step and its fetch gave a commit.
Fetched == checkRes' \notin {"none", "NotOnABranch", "FetchFailed"}

\* The fetched commit is ahead of HEAD.
Behind == head # 0 /\ head # remoteHead /\ IsAncestor(head, remoteHead)

\* Neither of HEAD and the fetched commit contains the other.
Diverged ==
    head # 0 /\ ~IsAncestor(head, remoteHead) /\ ~IsAncestor(remoteHead, head)

\* The commits with a matching tag that are reachable from the fetched
\* commit and not from HEAD.
NewTags ==
    {c \in Anc(remoteHead) \ Anc(head) : commits[c].tag = "match"}

HeadStays == head' = head /\ workTree' = workTree

\* C13: HEAD only ever moves as a fast-forward, in push mode and in tag
\* mode: the commit it is moved to has the commit it was on as an ancestor.
C13_HeadOnlyFastForwards ==
    [][(head # 0 /\ head' # head) => IsAncestor(head, head')]_vars

\* C14: when the fetched commit can neither be fast-forwarded to nor is
\* contained in HEAD, the check fails with MergeConflict and HEAD is not
\* moved.
C14_NoUpdateUnlessFastForward ==
    [][(Fetched /\ Diverged) => (checkRes' = "MergeConflict" /\ HeadStays)]_vars

\* HEAD and the fetched commit have diverged and the check has just failed
\* with MergeConflict
C14_Witness ==
    /\ checkRes = "MergeConflict"
    /\ Diverged

\* The check gets as far as pull(): there is something to fast-forward to
\* and, in tag mode, a tag was found.
PullCalled ==
    /\ Behind
    /\ trigger = "tag" => PullTarget(trigger, remoteHead, head) # 0

C16_TrueOnlyOnFastForward ==
    [][Fetched =>
         /\ checkRes' = "true" => Behind
         /\ (head # 0 /\ IsAncestor(remoteHead, head)) =>
                (checkRes' = "false" /\ HeadStays)]_vars

\* In push mode HEAD has been moved to the tip of the remote branch by an
\* earlier check, nothing was pushed since, and the check that has just run
\* returned false
C16_Witness ==
    /\ trigger = "push"
    /\ checkRes = "false"
    /\ head = remoteHead
    /\ head # 1
    /\ ~dirty

TagsSinceHead ==
    {c \in Anc(remoteHead) : c > head /\ commits[c].tag = "match"}

C18_NoNewTagNoUpdate ==
    [][(Fetched /\ trigger = "tag" /\ Behind /\ NewTags = {}) =>
           (checkRes' = "false" /\ HeadStays)]_vars

\* HEAD sits on a tagged commit it was moved to, the remote has gone on with
\* a commit whose tag does not match the pattern, and the check has just
\* returned false
C18_Witness ==
    /\ trigger = "tag"
    /\ checkRes = "false"
    /\ Behind
    /\ head # 1
    /\ commits[head].tag = "match"
    /\ \E c \in Anc(remoteHead) \ Anc(head) : commits[c].tag = "other"

\* C19: the Once trigger sends one Some(context) whose TRIGGER_NAME is ONCE,
\* then one None, in that order, and returns having sent nothing else; while a
\* send has failed or is still to come, what it has sent is a prefix of that.
C19_OnceSendsSomeThenNone ==
    tkind = "once" =>
        /\ tpc = "ok" => chan = <<SomeMsg("ONCE"), NoneMsg>>
        /\ tpc \in {"listen", "err"} => chan \in {<<>>, <<SomeMsg("ONCE")>>}
        /\ tpc \in {"listen", "ok", "err"}
        /\ tpc = "err" => ~rxAlive

C19_Witness ==
    /\ tkind = "once"
    /\ tpc = "ok"
    /\ Len(chan) = 2
    /\ chan[1].some /\ chan[1].name = "ONCE"
    /\ ~chan[2].some

\* the step in which listen_inner takes the first signal
FirstSignalTaken == tkind = "signal" /\ trigger_count = 0 /\ trigger_count' = 1

\* C20: on the first termination signal the Signal trigger sends exactly one
\* None and no Some, and does not exit the process: it keeps listening.
\* Before the first signal it has sent nothing, it never sends anything but
\* that one None, and up to a second signal the process ends by the return
\* of main only.
C20_FirstSignalSendsOneNone ==
    [][/\ (FirstSignalTaken /\ rxAlive) => chan' = Append(chan, NoneMsg)
       /\ FirstSignalTaken => (exitCode' = -1 /\ tpc' = "signals")
       /\ (tkind = "signal" /\ trigger_count = 0) => chan = <<>>
       /\ (tkind = "signal" /\ ~FirstSignalTaken) => chan' = chan
       /\ (tkind = "signal" /\ trigger_count' <= 1) =>
              (exitCode' \in {-1, 0} /\ tpc' \notin {"grace", "exited"})]_vars

C20_Witness ==
    /\ tkind = "signal"
    /\ tpc = "signals"
    /\ trigger_count = 1
    /\ chan = <<NoneMsg>>
    /\ exitCode = -1

\* the trigger has taken a second signal and holds it
SecondSignalTaken == tkind = "signal" /\ trigger_count >= 2

\* C21, as stated: once the Signal trigger has taken a second termination
\* signal, the process does not end with any status but that signal's number.
C21_ExitsWithTheSecondSignal ==
    (SecondSignalTaken /\ exitCode # -1) => exitCode = arrived[2]

\* C21, amended: the second signal the trigger takes, whenever it arrives, is
\* the one it holds through the 100 ms of grace and the one process::exit is
\* called with; the process then ends, with that number as its status unless
\* main has returned within the grace, in which case the status is main's 0.
\* No signal makes the process exit before a second one is taken.
C21_SecondSignalExitsUnlessMainReturned ==
    /\ [](tkind = "signal" /\ tpc = "grace" =>
            /\ trigger_count = 2
            /\ signal = arrived[2])
    /\ [](tkind = "signal" /\ exitCode \notin {-1, 0} =>
            /\ SecondSignalTaken
            /\ exitCode = arrived[2]
            /\ tpc = "exited")
    /\ [][tkind = "signal" /\ tpc = "grace" /\ tpc' = "exited" =>
            exitCode' = arrived[2]]_vars
    /\ (tkind = "signal" /\ tpc = "grace") ~> (exitCode # -1)

\* two different signals have arrived, the second was taken while the
\* Receiver was alive, and the process has ended with the second's number
C21_Witness ==
    /\ tkind = "signal"
    /\ Len(arrived) >= 2
    /\ arrived[1] # arrived[2]
    /\ rxAlive
    /\ tpc = "exited"
    /\ exitCode = arrived[2]

\* a periodic trigger that was given a deadline
Deadlined == tkind = "schedule" /\ timeout # NoTimeout

\* C22: a periodic trigger with a deadline ends; when its step says not to
\* continue the deadline has been reached; every sleep ends at the deadline at
\* the latest as asked, the last one being cut to it; and no event is sent
\* after the deadline.
C22_DeadlineEndsTheLoop ==
    /\ [](Deadlined /\ tpc = "ok" => now >= final_timeout)
    /\ [](Deadlined /\ tpc \in {"sleep", "sleep_final"} => wake <= final_timeout)
    /\ [](Deadlined /\ tpc = "sleep_final" => wake = final_timeout)
    /\ [][Deadlined /\ chan' # chan => now <= final_timeout]_vars
    /\ [][Deadlined /\ tpc \in {"ok", "err"} => (tpc' = tpc /\ chan' = chan)]_vars
    /\ <>(Deadlined => (tpc \in {"ok", "err"} \/ exitCode # -1))

\* a deadline that is no multiple of the period: the second sleep was cut and
\* the trigger has ended at the deadline, having sent two events
C22_Witness ==
    /\ Deadlined
    /\ duration = 2
    /\ timeout = 3
    /\ tpc = "ok"
    /\ now = final_timeout
    /\ Len(chan) = 2

\* C23: when a periodic trigger with a deadline has ended, the last thing it
\* has sent on the channel is a None.
C23_DeadlineSendsNone ==
    (Deadlined /\ tpc = "ok") => (chan # <<>> /\ chan[Len(chan)] = NoneMsg)

C25_OneEventPerRequest ==
    tkind = "http" =>
        /\ Len(responses) = Len(requests)
        /\ Len(chan) <= Len(requests)
        /\ \A i \in 1..Len(chan) :
              /\ chan[i].some
              /\ chan[i].name = "HTTP"
              /\ chan[i].method = requests[i].method
              /\ chan[i].url = requests[i].url
        /\ \A i \in 1..Len(requests) :
              \/ i <= Len(chan) /\ responses[i] = OkResponse
              \/ i = Len(requests) /\ tpc = "err" /\ responses[i] = NoResponse
        /\ Len(chan) < Len(requests) =>
              (Len(chan) = Len(requests) - 1 /\ terr = "ReceiverHangup")
        /\ tpc = "serving" => Len(chan) = Len(requests)

C25_Witness ==
    /\ tkind = "http"
    /\ tpc = "serving"
    /\ requests = << [method |-> "GET", url |-> "/"],
                     [method |-> "POST", url |-> "/trigger"] >>
    /\ chan = <<HttpMsg("GET", "/"), HttpMsg("POST", "/trigger")>>
    /\ responses = <<OkResponse, OkResponse>>

\* the keys a context can hold
ContextKeys == {"TRIGGER_NAME", "HTTP_METHOD", "CHECK_NAME", "GIT_COMMIT_SHA"}

\* the step in which a script run spawns its child
ScriptSpawned == spc = "run" /\ spc' = "read"

\* C26: the child of a script run has GW_K = V in its environment for every
\* key K with value V of the context of the event, next to CI = true,
\* GW_ACTION_NAME = SCRIPT and GW_DIRECTORY; a key the context of this event
\* does not hold is not there as GW_K, whatever an earlier event held, unless
\* gw itself was started with that variable.
C26_ContextReachesTheScript ==
    [][ScriptSpawned =>
          /\ \A k \in DOMAIN context :
                /\ Name("GW_", k) \in DOMAIN senv'
                /\ senv'[Name("GW_", k)] = context[k]
          /\ senv'[Name("", "CI")] = "true"
          /\ senv'[Name("GW_", "ACTION_NAME")] = "SCRIPT"
          /\ senv'[Name("GW_", "DIRECTORY")] = Directory
          /\ \A k \in ContextKeys \ DOMAIN context :
                Name("GW_", k) \notin DOMAIN senv'
          /\ \A n \in DOMAIN penv :
                n \in DOMAIN senv' /\ senv'[n] = penv[n]]_vars

\* the script runs for a second event whose context lacks a key, and differs
\* in another, from the context of the event before, for which it also ran
C26_Witness ==
    /\ spc = "read"
    /\ nEvents = 2
    /\ "HTTP_METHOD" \in DOMAIN prevContext
    /\ "GIT_COMMIT_SHA" \in DOMAIN prevContext
    /\ "HTTP_METHOD" \notin DOMAIN context
    /\ context["GIT_COMMIT_SHA"] # prevContext["GIT_COMMIT_SHA"]
    /\ senv[Name("GW_", "GIT_COMMIT_SHA")] = context["GIT_COMMIT_SHA"]
    /\ senv[Name("GW_", "TRIGGER_NAME")] = "SCHEDULE"

\* C27: a script run during which a line of the output could not be read
\* returns OutputFailure.
C27_UnreadableOutputFails ==
    (spc = "recv" /\ sres \notin {"none", "ScriptFailure"}
        /\ \E i \in 1..Len(slog) : slog[i] = "<output cannot be parsed>")
        => sres = "OutputFailure"

\* C28: within one fetch no credential is handed out twice: each call of the
\* callback returns a credential it has not returned before, or an error.
C28_EachCredentialAtMostOnce ==
    \A i, j \in 1..Len(answers) :
        (i < j /\ answers[i].ok /\ answers[j].ok) => answers[i] # answers[j]

\* C29: the explicit HTTPS credentials are handed out at most once in a fetch.
C29_ExplicitCredentialsOnce ==
    https_credentials =>
        Cardinality({i \in 1..Len(answers) :
                        answers[i] = Cred("explicit username and password", 1)}) <= 1

\* C30: once start has returned on the shutdown token, the child the process
\* reactor manages is not running.
C30_ShutdownStopsTheChild ==
    mpc = "returned" => ~Running(CurChild)


(***************************************************************************)
(* The supervisor thread and the stop of the process reactor, checked      *)
(* under ProcSpec.                                                         *)
(***************************************************************************)

\* The supervisor of g has read the output of its child to the end and finds
\* that a signal terminated the child (process.rs:178-183)
FindsSignalled(g) ==
    /\ sup[g].pc = "read"
    /\ sup'[g].pc # "read"
    /\ kids[slot[g]].how = "signal"

StartsReplacement(g) ==
    /\ sup[g].pc = "sleep"
    /\ Len(kids') = Len(kids) + 1

\* C32: a supervisor starts a replacement only with one of its `retries`
\* tries after the first left, so at most `retries` of them, and only when
\* the child in its slot has exited; once its tries are used up it starts no
\* child and does not fill its slot again.
C32_RetriesAreBoundedAndSequential ==
    /\ [][\A g \in Sups : StartsReplacement(g) =>
             /\ sup[g].tries \in 1..retries
             /\ ~kids[slot[g]].alive]_vars
    /\ [][\A g \in Sups : sup[g].tries = 0 =>
             /\ sup'[g].tries = 0
             /\ sup'[g].pc \in {"take", "done"}
             /\ slot'[g] \in {slot[g], 0}]_vars


\* stop() ends the running child c by force: child.kill() of
\* process.rs:290-292, made by the thread that is in stop()
StopForceKills(c) ==
    /\ mpc = "stop_poll"
    /\ mpc' # "stop_poll"
    /\ kids[c].alive
    /\ ~kids'[c].alive

\* C33: stop() sends the stop signal first and kills by force only a child
\* that is still running when stop_timeout has elapsed.  The polling starts
\* only from a kill(pid, stop_signal) that succeeded for the slot's child;
\* a kill by force is of that child, after stop_timeout turns of polling;
\* and a child that has exited with a status keeps it, so it is never
\* killed by force.
C33_SignalThenForceKillAfterTimeout ==
    /\ [][(mpc # "stop_poll" /\ mpc' = "stop_poll") =>
             /\ mpc = "stop_kill"
             /\ target = CurChild
             /\ target' = target
             /\ ~KillFails(kids[target])]_vars
    /\ [][\A c \in Children : StopForceKills(c) =>
             /\ c = target
             /\ polls >= stopTimeout
             /\ kids'[c].how = "signal"]_vars
    /\ [][\A c \in Children : kids[c].how = "exit" => kids'[c].how = "exit"]_vars

\* stop() has sent the stop signal and polled for the whole of a stop_timeout
\* of a second or more; the child is still running, and what stop() does
\* next is the kill by force
C33_Witness ==
    /\ stopTimeout >= 1
    /\ mpc = "stop_poll"
    /\ polls = stopTimeout
    /\ target = CurChild
    /\ kids[target].alive


\* C34: while stop() holds the read lock of the slot (from finding the child
\* to its return) the slot holds the child stop() acts on and its content
\* does not change, and it is still that child in the step in which stop()
\* returns: the supervisor's replace() and take() wait for the write lock.
C34_SlotIsStableUnderTheReadLock ==
    /\ [](mainLock => (target # 0 /\ CurChild = target))
    /\ [][mainLock => (slot'[Gen] = slot[Gen] /\ Gen' = Gen)]_vars

\* stop() is polling a child that has exited while the supervisor of the same
\* slot has already started the replacement and waits to write it
C34_Witness ==
    /\ mainLock
    /\ mpc = "stop_poll"
    /\ sup[Gen].pc = "write"
    /\ sup[Gen].newc # 0
    /\ CurChild = target
    /\ Running(sup[Gen].newc)


\* The children that are running
AliveChildren == {c \in Children : kids[c].alive}

\* C35: at every moment at most one child that the process reactor has
\* started is alive.
C35_AtMostOneChildAlive == Cardinality(AliveChildren) <= 1


\* run was called while the slot held a child that had already ended, and
\* has returned
RestartedAnExitedChild ==
    /\ mop = "run"
    /\ mpc = "idle"
    /\ before # 0
    /\ ~beforeAlive

\* C36: a restart issued while the slot holds a child that has already
\* exited is not prevented by its stop: when such a run has returned, its
\* stop() had not returned an error, so the start of the new child was made.
C36_RestartAfterExitSucceeds ==
    RestartedAnExitedChild => lastStop # "err"


\* The supervisor of g has tried to start a replacement and start_child
\* has failed (process.rs:210-213)
ReplacementFails(g) ==
    /\ sup[g].pc = "sleep"
    /\ sup'[g].pc # "sleep"
    /\ Len(kids') = Len(kids)

\* C40: when the start of a replacement fails the supervisor gives up at
\* once, whatever tries it has left: it goes to the take() of the slot, from
\* there its only step empties the slot and ends the thread, and it does not
\* start a child or fill the slot again.
C40_FailedRestartGivesUp ==
    /\ [][\A g \in Sups : ReplacementFails(g) =>
             (sup'[g].pc = "take" /\ sup'[g].tries = sup[g].tries)]_vars
    /\ [][\A g \in Sups : sup[g].pc = "take" =>
             \/ sup'[g] = sup[g] /\ slot'[g] = slot[g]
             \/ sup'[g] = [sup[g] EXCEPT !.pc = "done"] /\ slot'[g] = 0]_vars
    /\ [][\A g \in Sups : (sup[g].pc = "done" /\ slot[g] = 0) =>
             (sup'[g] = sup[g] /\ slot'[g] = 0)]_vars

\* The first child exited with a status, the start of its replacement
\* failed with a try left, and the supervisor has emptied the slot and ended
C40_Witness ==
    /\ Len(kids) = 1
    /\ kids[1].how = "exit"
    /\ slot = <<0>>
    /\ sup[1].pc = "done"
    /\ sup[1].tries >= 1


(***************************************************************************)
(* The orchestrator's queue and its shutdown, checked under DeadlineSpec.  *)
(***************************************************************************)

\* The events that have been enqueued, and those still on the channel
Enqueued == 1..(nextId - 1)
Queued == {queue[k] : k \in 1..Len(queue)} \ {0}

\* The loop body is running: a check or a batch of reactors
InLoopBody == opc \in {"check", "act"}

TriggersEnded ==
    /\ opc \in {"recv", "check", "act", "done"}
    /\ \A i \in 1..Len(trig) : tst[i] \in {"ok", "err"}

\* There is a shutdown token on the channel
NoneQueued == \E k \in 1..Len(queue) : queue[k] = 0

\* C38: while the signal thread of start() listens, start returns Ok only
\* on a None it has received.  With the channel empty the orchestrator stays
\* in recv(); and once every trigger has ended a message can only come from
\* the signal thread, and it is a None.
C38_BlockedUntilASignal ==
    /\ []((opc = "done" /\ result = "Ok" /\ sigst = "listening") =>
             (gotNone /\ exitBy = "None"))
    /\ [][(opc = "recv" /\ queue = <<>> /\ sigst = "listening") =>
             opc' = "recv"]_vars
    /\ [][(TriggersEnded /\ sigst = "listening" /\ Len(queue') > Len(queue)) =>
             queue' = Append(queue, 0)]_vars

\* An HTTP trigger that could not bind and a periodic trigger that has
\* reached its deadline: both have ended, no None was sent, the event was
\* checked and the orchestrator waits on the empty channel
C38_Witness ==
    /\ Len(trig) = 2
    /\ \E i, j \in 1..2 :
          /\ trig[i] = "http" /\ tst[i] = "err"
          /\ trig[j] = "schedule" /\ tst[j] = "ok"
    /\ sigst = "listening"
    /\ opc = "recv"
    /\ queue = <<>>
    /\ nChecks = 1
    /\ ~gotNone


(***************************************************************************)
(* The git check's frame, checked under GitSpec.                           *)
(***************************************************************************)

\* C39: HEAD (the commit of the branch it is on) changes only in a check
\* that returns true: in every step that moves it the check has returned
\* true, so after a check that returned false or an error HEAD is where it
\* was.
C39_HeadMovesOnlyWhenTrue ==
    [][head' # head => checkRes' = "true"]_vars

====
